---- MODULE Spec2Model ----
(***************************************************************************)
(* LaserResist: fill-path generation, bloom compensation and G-code        *)
(* emission, modelled from src/src/laserresist.                            *)
(*                                                                         *)
(* Lengths are integers in micrometres (0.001 mm): line_spacing 0.1 mm is  *)
(* 100, the degenerate-path limit 0.01 mm is 10, min_trace_length 0.2 mm   *)
(* is 200.  Ambient-bloom energies are small naturals.                     *)
(***************************************************************************)
EXTENDS Integers, Sequences, FiniteSets, TLC

(***************************************************************************)
(* Bounds of the model.                                                    *)
(***************************************************************************)
MaxTraces == 3
MaxBloom == 2
MaxFillsPerTrace == 2
MaxGcodePaths == 2
MaxPolys == 2

VARIABLES
    \* ---- cli.main, bloom compensation (cli.py 669-715)
    phase,                 \* how far the bloom pipeline of this run has come
    bloom_error,           \* the exception that ended the run, or "none"
    bloom_compensation,    \* option bloom_compensation
    bloom_debug_image,     \* option bloom_debug_image
    double_expose_isolated,\* option double_expose_isolated of fill_gen
    num_sim_paths,         \* len(paths) handed to simulate
    trace_elements,        \* parser's trace centerlines: <<[len, ambient]>>
    threshold_percentile,  \* option bloom_threshold_percentile
    verbose,               \* args.verbose
    \* ---- FastBloomSimulator
    grid,                  \* self.grid: "None" | "zeros" | "energy"
    grid_shape,            \* self.grid_shape: "None" | "set"
    \* ---- results
    normal_traces,         \* indices into trace_elements
    underexposed_traces,   \* indices into trace_elements
    bloom_compensation_paths, \* <<[trace, kind]>>, kind "LineString" | "str"
    visualization,         \* "none" | "emitted" | "skipped"
    \* ---- GCodeGenerator.generate (gcode_generator.py)
    gc_pc,                 \* "main" | "call" | "header" | "paths" | "footer" | "done" | "raised"
    gc_error,              \* the exception that left generate, or "none"
    gc_paths,              \* argument paths: <<[n, secs]>>
    gc_isolated,           \* argument isolated_paths: [given, paths], given = FALSE for None
    gc_opts,               \* constructor options and board_outline_bounds
    gen_attrs,             \* attributes generate has assigned on self
    out,                   \* the commands written to output_file
    \* ---- FillGenerator.generate_fill (fill_generator.py)
    f_pc,                  \* "start" | "loop" | "traces" | "split" | "done" | "raised"
    f_error,               \* the exception that left generate_fill, or "none"
    geometry,              \* argument geometry: the polygons of the MultiPolygon
    trace_centerlines,     \* argument trace_centerlines: <<[line, width]>>
    fill_opts,             \* the constructor's options and offset_centerlines
    faults,                \* the geometric operations that throw on this geometry
    current_geom,          \* the geometry the loop has offset so far
    iteration,             \* the loop counter
    paths,                 \* the paths collected so far
    warning,               \* the iteration-limit warning was printed
    fill_result,           \* what generate_fill returned
    \* ---- cli.main from the G-code file to the drilling template (cli.py 734-820)
    main_pc,               \* "gcode" | "saved" | "rendering" | "template_done" | "returned" | "aborted"
    tmpl_in,               \* generate_template_stl, pin mode, what the renderer does
    renderer_runs,         \* how often subprocess.run started the renderer
    stl_success,           \* what generate_stl returned: "none" | "True" | "False"
    exit_code,             \* what main returned: "none" | 0
    \* ---- cli.main, the settings (cli.py 426-531)
    cfg_pc,                \* "args" | "loaded" | "resolved" | "exited"
    cli_args,              \* args: what argparse returned
    config_file,           \* the file --config names and what it holds
    config,                \* the dict config
    unknown_warning,       \* load_config warned about unknown keys
    settings,              \* the values main goes on with
    \* ---- cli.main, the lists handed to GCodeGenerator.generate (cli.py 756-763)
    isolated_paths,        \* the isolated paths of the fill result
    compensation_paths,    \* bloom_compensation_paths, as G-code paths
    \* ---- cli.main in pin alignment mode and PinAlignmentUI (cli.py 568-652)
    pin_pc,                \* "main" | "ui" | "closed" | "selected" | "transform" | "generate" | "written" | "return0" | "return1"
    pin_in,                \* the drill holes, the offsets, the flip, the macro, the bounds
    all_holes,             \* self.all_holes
    selected_holes,        \* self.selected_holes: indices into all_holes
    selected_pins,         \* self.selected_pins: {} for None, or {<<hole1, hole2>>}
    confirmed,             \* self.confirmed
    cancelled,             \* self.cancelled
    selected,              \* what show_board returned: {} for None, or {<<pin1, pin2>>}
    pin_transform,         \* main's pin_transform: {} for None, or {the dict}
    pin_gen,               \* the transformation attributes generate has set: {} or {the record}
    moved,                 \* the path points written: {[from, to]}
    \* ---- FastBloomSimulator.rasterize_paths (bloom_compensator.py 59-81)
    raster_pc,             \* "call" | "loop" | "returned"
    raster_in,             \* self.bounds, self.grid_shape, paths, sample_distance, min_samples
    raster_i,              \* how many entries of paths the loop has done
    raster_grid            \* raster_grid: the hit count of every cell

bloomVars == <<phase, bloom_error, bloom_compensation, bloom_debug_image,
               double_expose_isolated, num_sim_paths, trace_elements,
               threshold_percentile, verbose, grid, grid_shape, normal_traces,
               underexposed_traces, bloom_compensation_paths, visualization>>

bloomInputs == <<bloom_compensation, bloom_debug_image, double_expose_isolated,
                 num_sim_paths, trace_elements, threshold_percentile, verbose>>

gcodeVars == <<gc_pc, gc_error, gc_paths, gc_isolated, gc_opts, gen_attrs, out>>

gcodeInputs == <<gc_paths, gc_isolated, gc_opts>>

fillVars == <<f_pc, f_error, geometry, trace_centerlines, fill_opts, faults,
              current_geom, iteration, paths, warning, fill_result>>

fillInputs == <<geometry, trace_centerlines, fill_opts, faults>>

templateVars == <<main_pc, tmpl_in, renderer_runs, stl_success, exit_code>>

configVars == <<cfg_pc, cli_args, config_file, config, unknown_warning, settings>>

\* the parts of a run that the pipelines above do not touch
handoffVars == <<isolated_paths, compensation_paths>>

pinVars == <<pin_pc, pin_in, all_holes, selected_holes, selected_pins, confirmed,
             cancelled, selected, pin_transform, pin_gen, moved>>

rasterVars == <<raster_pc, raster_in, raster_i, raster_grid>>

restVars == <<pinVars, rasterVars>>

lateVars == <<configVars, handoffVars, restVars>>

vars == <<bloomVars, gcodeVars, fillVars, templateVars, lateVars>>

(***************************************************************************)
(* Generic helpers.                                                        *)
(***************************************************************************)
Range(s) == {s[i] : i \in 1..Len(s)}

SeqsUpTo(S, n) == UNION {[1..k -> S] : k \in 0..n}

Abs(x) == IF x < 0 THEN -x ELSE x

Min2(a, b) == IF a < b THEN a ELSE b

Max2(a, b) == IF a > b THEN a ELSE b

Indices(n) == [i \in 1..n |-> i]

\* the indices 1..n for which keep(i) holds, in increasing order
SelectIdx(n, keep(_)) == SelectSeq(Indices(n), keep)

\* F applied to the value of v, v being evaluated once
Bind(v, F(_)) == CHOOSE r \in {F(x) : x \in {v}} : TRUE

RECURSIVE FlattenFrom(_, _)
FlattenFrom(ss, i) == IF i > Len(ss) THEN <<>> ELSE ss[i] \o FlattenFrom(ss, i + 1)

\* the concatenation of the sequences of ss
Flatten(ss) == Bind(ss, LAMBDA s : FlattenFrom(s, 1))

(***************************************************************************)
(* bloom_compensator.py: identify_underexposed_traces                      *)
(***************************************************************************)
min_trace_length == 200

PercentileChoices == {0, 30, 50, 100}

LengthChoices == {100, 200}

TraceChoices == [len : LengthChoices, ambient : 0..MaxBloom]

\* meaningful_traces = [t for t in trace_elements if t['line'].length >= min_trace_length]
MeaningfulTraces(traces) ==
    SelectIdx(Len(traces), LAMBDA i : traces[i].len >= min_trace_length)

\* bloom_values: the ambient bloom of every analysed trace, in order
BloomValues(traces) ==
    LET m == MeaningfulTraces(traces)
    IN  [k \in 1..Len(m) |-> traces[m[k]].ambient]

\* the k-th smallest (k = 0 is the minimum) of a non-empty sequence of values
KthSmallest(vals, k) ==
    CHOOSE v \in Range(vals) :
        /\ Cardinality({i \in 1..Len(vals) : vals[i] < v}) <= k
        /\ k < Cardinality({i \in 1..Len(vals) : vals[i] <= v})

\* np.percentile(bloom_values, p) with numpy's default linear interpolation,
\* times 100: the virtual index is p/100 * (n-1); its integer part picks the
\* lower order statistic, its fraction interpolates towards the next one.
Percentile100(vals, p) ==
    LET n    == Len(vals)
        num  == p * (n - 1)
        lo   == num \div 100
        frac == num % 100
        below == KthSmallest(vals, lo)
        above == IF lo + 1 < n THEN KthSmallest(vals, lo + 1) ELSE below
    IN  below * (100 - frac) + above * frac

IsUnderexposedSwapped(ambient, threshold100) == ~(ambient * 100 < threshold100)

IsUnderexposedOrEqual(ambient, threshold100) == ambient * 100 <= threshold100

\* if trace_data['ambient_bloom'] < bloom_threshold
IsUnderexposed(ambient, threshold100) == ambient * 100 < threshold100

\* The two lists the classification loop builds, as indices into traces.
Classify(traces, p) ==
    LET m == MeaningfulTraces(traces)
        t == Percentile100(BloomValues(traces), p)
        under(k)  == IsUnderexposed(traces[m[k]].ambient, t)
        normal(k) == ~IsUnderexposed(traces[m[k]].ambient, t)
        u == SelectIdx(Len(m), under)
        n == SelectIdx(Len(m), normal)
    IN  [normal       |-> [k \in 1..Len(n) |-> m[n[k]]],
         underexposed |-> [k \in 1..Len(u) |-> m[u[k]]]]

\* What np.percentile does on an empty array depends on the numpy build:
\* it returns nan, or it raises IndexError.
PercentileOfEmpty == {"nan", "IndexError"}

\* The outcome of the whole call: the lists returned, or the exception.
\*   - no analysed trace: np.percentile of an empty array (line 178), then,
\*     if verbose, bloom_values.min() of an empty array (line 181), which
\*     raises ValueError;
\*   - otherwise the threshold and the classification loop.
IdentifyOutcome(traces, p, verb, emptyPercentile) ==
    IF MeaningfulTraces(traces) = <<>>
    THEN IF emptyPercentile = "IndexError"
         THEN [error |-> "IndexError", normal |-> <<>>, underexposed |-> <<>>]
         ELSE IF verb
         THEN [error |-> "ValueError", normal |-> <<>>, underexposed |-> <<>>]
         ELSE [error |-> "none", normal |-> <<>>, underexposed |-> <<>>]
    ELSE [error |-> "none"] @@ Classify(traces, p)

\* the bloom pipeline of a run that is not being looked at
BloomIdle ==
    /\ phase = "Idle"
    /\ bloom_error = "none"
    /\ bloom_compensation = FALSE
    /\ bloom_debug_image = FALSE
    /\ double_expose_isolated = FALSE
    /\ num_sim_paths = 0
    /\ trace_elements = <<>>
    /\ threshold_percentile = 30
    /\ verbose = FALSE
    /\ grid = "None"
    /\ grid_shape = "None"
    /\ normal_traces = <<>>
    /\ underexposed_traces = <<>>
    /\ bloom_compensation_paths = <<>>
    /\ visualization = "none"

(***************************************************************************)
(* template_generator.py: the inputs of the drilling template              *)
(***************************************************************************)
\* timeout=60 of subprocess.run, in seconds
OpenscadTimeout == 60

\* what the renderer does when started: it is not installed, it exits with
\* 0 or with an error, after so many seconds; or the template file that
\* generate_stl looks up first is missing
RendererChoices ==
    [binary : {"found", "not_found"}, template : {"found", "missing"},
     returncode : {0, 1}, seconds : {5, 75}]

TemplateInputs == [requested : BOOLEAN, pin_mode : BOOLEAN, renderer : RendererChoices]

\* no drilling template is asked for
NoTemplate ==
    [requested |-> FALSE, pin_mode |-> FALSE,
     renderer |-> [binary |-> "found", template |-> "found", returncode |-> 0, seconds |-> 5]]

\* the end of main in a run that is not being looked at
TemplateIdle ==
    /\ main_pc = "gcode"
    /\ tmpl_in = NoTemplate
    /\ renderer_runs = 0
    /\ stl_success = "none"
    /\ exit_code = "none"

(***************************************************************************)
(* cli.py: load_config and main.get_value                                  *)
(*                                                                         *)
(* A value that may be None is a set: {} for None (or a key the config     *)
(* file does not hold), {v} for the value v.                               *)
(***************************************************************************)
\* the settings looked at: a float option, two store_true flags, a key that
\* has no command-line option, and a string option without default
SettingKeys == {"line_spacing", "forced_pad_centerlines", "isolation_threshold",
                "no_normalize", "laser_arm_command"}

\* action="store_true": args holds a bool, False when the flag is not given
FlagArgs == {"forced_pad_centerlines", "no_normalize"}

\* the options parser.add_argument declares; a key without one is missing
\* from args and getattr(args, name, None) is None
ArgNames == SettingKeys \ {"isolation_threshold"}

\* the default= of each get_value call
DefaultOf(key) ==
    CASE key = "line_spacing" -> {100}
      [] key = "forced_pad_centerlines" -> {FALSE}
      [] key = "isolation_threshold" -> {3000}
      [] key = "no_normalize" -> {FALSE}
      [] key = "laser_arm_command" -> {}

ArgChoices ==
    [line_spacing : {{}, {50}}, forced_pad_centerlines : BOOLEAN,
     no_normalize : BOOLEAN, laser_arm_command : {{}, {"ARM_LASER"}}]

\* the dict a config file holds, and whether it has a key that is not known
ConfigDictChoices ==
    [line_spacing : {{}, {200}}, forced_pad_centerlines : {{}, {TRUE}, {FALSE}},
     isolation_threshold : {{}, {0}}, no_normalize : {{}, {TRUE}, {FALSE}},
     laser_arm_command : {{}, {"M42"}}, unknown : BOOLEAN]

EmptyConfig ==
    [line_spacing |-> {}, forced_pad_centerlines |-> {}, isolation_threshold |-> {},
     no_normalize |-> {}, laser_arm_command |-> {}, unknown |-> FALSE]

ConfigFileChoices ==
    [given : BOOLEAN, exists : BOOLEAN, suffix : {".json", ".yaml", ".txt"},
     yaml_available : BOOLEAN, dict : ConfigDictChoices]

NoArgs ==
    [line_spacing |-> {}, forced_pad_centerlines |-> FALSE,
     no_normalize |-> FALSE, laser_arm_command |-> {}]

NoConfigFile ==
    [given |-> FALSE, exists |-> FALSE, suffix |-> ".json", yaml_available |-> TRUE,
     dict |-> EmptyConfig]

NoSettings == [key \in SettingKeys |-> {}]

\* config_key in config
InConfig(cfg, key) == cfg[key] # {}

\* get_value(arg_name, default=...): a flag that is False falls back to the
\* config when the key is there and is returned as it is otherwise; any
\* other argument is returned unless it is None, then config.get(key, default)
GetValue(args, cfg, key) ==
    IF key \in FlagArgs
    THEN IF ~args[key] /\ InConfig(cfg, key) THEN cfg[key] ELSE {args[key]}
    ELSE IF key \in ArgNames /\ args[key] # {} THEN args[key]
    ELSE IF InConfig(cfg, key) THEN cfg[key]
    ELSE DefaultOf(key)

\* the settings of a run that is not being looked at
ConfigIdle ==
    /\ cfg_pc = "args"
    /\ cli_args = NoArgs
    /\ config_file = NoConfigFile
    /\ config = EmptyConfig
    /\ unknown_warning = FALSE
    /\ settings = NoSettings

\* nothing to combine: generate is called as it is
HandoffIdle ==
    /\ isolated_paths = <<>>
    /\ compensation_paths = <<>>

\* a pin with x, y and diameter, as the drill parser gives it
Hole(x, y, d) == [x |-> x, y |-> y, diameter |-> d]

NoPinInput ==
    [pth_holes |-> <<>>, npth_holes |-> <<>>, x_offset |-> 0, y_offset |-> 0,
     flip_horizontal |-> FALSE, pin_macro |-> FALSE, board_outline_bounds |-> {},
     bounds |-> <<0, 0, 0, 0>>]

\* a run that is not in pin alignment mode
PinIdle ==
    /\ pin_pc = "main"
    /\ pin_in = NoPinInput
    /\ all_holes = <<>>
    /\ selected_holes = <<>>
    /\ selected_pins = {}
    /\ confirmed = FALSE
    /\ cancelled = FALSE
    /\ selected = {}
    /\ pin_transform = {}
    /\ pin_gen = {}
    /\ moved = {}

NoRasterInput ==
    [bounds |-> <<0, 0>>, grid_shape |-> <<0, 0>>, paths |-> <<>>,
     sample_distance |-> 1, min_samples |-> 2]

\* rasterize_paths is not being looked at
RasterIdle ==
    /\ raster_pc = "call"
    /\ raster_in = NoRasterInput
    /\ raster_i = 0
    /\ raster_grid = <<>>

RestIdle == PinIdle /\ RasterIdle

LateIdle == ConfigIdle /\ HandoffIdle /\ RestIdle

(***************************************************************************)
(* gcode_generator.py: GCodeGenerator.generate                             *)
(*                                                                         *)
(* A path is [n, secs]: the number of points of the LineString (0 for an   *)
(* empty one) and the seconds its exposure takes at feed_rate; consecutive *)
(* paths start where the previous one ended, so travel takes no time.      *)
(* A command is [cmd, sec, idx, arg]: the word written, the part of the    *)
(* program it belongs to, the path it belongs to and, for M73, the         *)
(* progress in tenths of a percent.                                        *)
(***************************************************************************)
PathChoices == {[n |-> 0, secs |-> 0], [n |-> 2, secs |-> 1], [n |-> 3, secs |-> 4]}

OutlineChoices == {"none", "outward", "base", "inward"}

HeaderModes == {"home", "mesh", "macro"}

GcodeOptions ==
    [outline : OutlineChoices,     \* draw_outline with board_outline_bounds, and the sign of outline_offset_count
     mode    : HeaderModes,        \* homing, homing with bed mesh, pin macro
     arm     : BOOLEAN,            \* laser_arm_command is set
     disarm  : BOOLEAN]            \* laser_disarm_command is set

Cmd(c, sec, idx, arg) == [cmd |-> c, sec |-> sec, idx |-> idx, arg |-> arg]

\* paths.copy() extended by isolated_paths
AllPathsForTime(normal, isolated) ==
    IF isolated.given THEN normal \o isolated.paths ELSE normal

RECURSIVE SumSecs(_)
SumSecs(ps) == IF ps = <<>> THEN 0 ELSE Head(ps).secs + SumSecs(Tail(ps))

\* _calculate_time_estimate, in milliseconds: (exposure + 0.1 s per path) * 1.05
TimeEstimateMs(ps) == 1050 * SumSecs(ps) + 105 * Len(ps)

\* _calculate_time_estimate reads normal[i].coords[-1] and normal[i+1].coords[0]
\* for every neighbouring pair: IndexError on an empty LineString
TimeEstimateRaises(ps) ==
    Len(ps) >= 2 /\ \E i \in 1..Len(ps) : ps[i].n = 0

PathBlockNoOff(sec, i, path) ==
    <<Cmd("G0", sec, i, 0), Cmd("M3", sec, i, 0)>>
    \o [k \in 1..(path.n - 1) |-> Cmd("G1", sec, i, 0)]

\* G0 to the start, M3, one G1 per further point, M5
PathBlock(sec, i, path) ==
    <<Cmd("G0", sec, i, 0), Cmd("M3", sec, i, 0)>>
    \o [k \in 1..(path.n - 1) |-> Cmd("G1", sec, i, 0)]
    \o <<Cmd("M5", sec, i, 0)>>

m73_interval == 3

\* min(100.0, cumulative_time / time_estimate_minutes * 100), in tenths of a percent
ProgressByTime(cum, estMs) == Min2(1000, (cum * 1000 * 1000) \div estMs)

\* (total_paths + i) / (total_paths + total_isolated) * 100, in tenths of a percent
ProgressByCount(total, i, totalIso) == ((total + i) * 1000) \div (total + totalIso)

\* the first loop of _write_paths from path i on: [toks, cum, last]
RECURSIVE NormalPass(_, _, _, _, _)
NormalPass(normal, i, cum, last, estMs) ==
    IF i > Len(normal) THEN [toks |-> <<>>, cum |-> cum, last |-> last]
    ELSE IF normal[i].n < 2 THEN NormalPass(normal, i + 1, cum, last, estMs)
    ELSE LET due  == cum - last >= m73_interval \/ i = 1 \/ i = Len(normal)
             m73  == IF due THEN <<Cmd("M73", "normal", i, ProgressByTime(cum, estMs))>>
                     ELSE <<>>
             rest == NormalPass(normal, i + 1, cum + normal[i].secs,
                                IF due THEN cum ELSE last, estMs)
         IN  [rest EXCEPT !.toks = m73 \o PathBlock("normal", i, normal[i]) \o @]

\* the second loop of _write_paths (over self.isolated_paths) from path i on
RECURSIVE IsolatedPass(_, _, _, _, _)
IsolatedPass(iso, i, cum, last, total) ==
    IF i > Len(iso) THEN <<>>
    ELSE IF iso[i].n < 2 THEN IsolatedPass(iso, i + 1, cum, last, total)
    ELSE LET due == cum - last >= m73_interval \/ i = 1 \/ i = Len(iso)
             m73 == IF due
                    THEN <<Cmd("M73", "isolated", i,
                               ProgressByCount(total, i - 1, Len(iso)))>>
                    ELSE <<>>
         IN  m73 \o PathBlock("isolated", i, iso[i])
                 \o IsolatedPass(iso, i + 1, cum + iso[i].secs,
                                 IF due THEN cum ELSE last, total)

\* _write_outline: abs(outline_offset_count) + 1 rectangles
OutlineCount(o) == IF o = "base" THEN 1 ELSE 2

OutlineBlock(i) ==
    <<Cmd("G0", "outline", i, 0), Cmd("M3", "outline", i, 0),
      Cmd("G1", "outline", i, 0), Cmd("G1", "outline", i, 0),
      Cmd("G1", "outline", i, 0), Cmd("G1", "outline", i, 0),
      Cmd("M5", "outline", i, 0)>>

WriteOutline(o) ==
    <<Cmd("G1F", "outline", 0, 0)>>
    \o Flatten([i \in 1..OutlineCount(o) |-> OutlineBlock(i)])

WriteHeaderArmAfterOutline(opts) ==
    <<Cmd("G21", "header", 0, 0), Cmd("G90", "header", 0, 0),
      Cmd("M83", "header", 0, 0), Cmd("M5", "header", 0, 0)>>
    \o (IF opts.mode = "macro"
        THEN <<Cmd("SETUP_PCB_SPACE", "header", 0, 0), Cmd("G0", "header", 0, 0)>>
        ELSE <<Cmd("G28", "header", 0, 0)>>
             \o (IF opts.mode = "mesh"
                 THEN <<Cmd("BED_MESH_CALIBRATE", "header", 0, 0)>> ELSE <<>>)
             \o <<Cmd("G0", "header", 0, 0), Cmd("G0", "header", 0, 0)>>)
    \o (IF opts.outline # "none" THEN WriteOutline(opts.outline) ELSE <<>>)
    \o (IF opts.arm THEN <<Cmd("ARM", "header", 0, 0)>> ELSE <<>>)

\* _write_header
WriteHeader(opts) ==
    <<Cmd("G21", "header", 0, 0), Cmd("G90", "header", 0, 0),
      Cmd("M83", "header", 0, 0), Cmd("M5", "header", 0, 0)>>
    \o (IF opts.mode = "macro"
        THEN <<Cmd("SETUP_PCB_SPACE", "header", 0, 0), Cmd("G0", "header", 0, 0)>>
        ELSE <<Cmd("G28", "header", 0, 0)>>
             \o (IF opts.mode = "mesh"
                 THEN <<Cmd("BED_MESH_CALIBRATE", "header", 0, 0)>> ELSE <<>>)
             \o <<Cmd("G0", "header", 0, 0), Cmd("G0", "header", 0, 0)>>)
    \o (IF opts.arm THEN <<Cmd("ARM", "header", 0, 0)>> ELSE <<>>)
    \o (IF opts.outline # "none" THEN WriteOutline(opts.outline) ELSE <<>>)

\* _write_paths
WritePaths(normal, isolated, estMs) ==
    LET first == NormalPass(normal, 1, 0, 0, estMs)
    IN  <<Cmd("G1F", "normal", 0, 0), Cmd("M73", "normal", 0, 0)>>
        \o first.toks
        \o (IF isolated.given /\ Len(isolated.paths) > 0
            THEN <<Cmd("G1F", "isolated", 0, 0)>>
                 \o IsolatedPass(isolated.paths, 1, first.cum, first.last, Len(normal))
            ELSE <<>>)

\* _write_footer
WriteFooter(opts) ==
    <<Cmd("M73", "footer", 0, 1000), Cmd("M5", "footer", 0, 0)>>
    \o (IF opts.disarm THEN <<Cmd("DISARM", "footer", 0, 0)>> ELSE <<>>)
    \o <<Cmd("G0", "footer", 0, 0), Cmd("M84", "footer", 0, 0)>>

\* the attributes generate assigns before it computes the time estimate
SetupAttrs == {"flip_center_x", "transform_x", "transform_y", "rotate_180",
               "board_outline_bounds", "isolated_paths"}

\* isolated_paths=None
NoIsolated == [given |-> FALSE, paths |-> <<>>]

IsolatedChoices ==
    {NoIsolated} \cup [given : {TRUE}, paths : SeqsUpTo(PathChoices, MaxGcodePaths)]

\* the generator of a run that is not being looked at
GcodeIdle ==
    /\ gc_pc = "call"
    /\ gc_error = "none"
    /\ gc_paths = <<>>
    /\ gc_isolated = NoIsolated
    /\ gc_opts = [outline |-> "none", mode |-> "home", arm |-> FALSE, disarm |-> FALSE]
    /\ gen_attrs = {}
    /\ out = <<>>

generate_begin_late_check ==
    /\ gc_pc = "call"
    /\ gen_attrs' = gen_attrs \cup SetupAttrs
    /\ IF gc_paths = <<>>
       THEN gc_pc' = "raised" /\ gc_error' = "ValueError"
       ELSE IF TimeEstimateRaises(AllPathsForTime(gc_paths, gc_isolated))
       THEN gc_pc' = "raised" /\ gc_error' = "IndexError"
       ELSE gc_pc' = "header" /\ UNCHANGED gc_error
    /\ UNCHANGED <<gcodeInputs, out>>

combine_compensation_first ==
    /\ gc_pc = "main"
    /\ gc_isolated' = IF compensation_paths \o isolated_paths = <<>> THEN NoIsolated
                      ELSE [given |-> TRUE, paths |-> compensation_paths \o isolated_paths]
    /\ gc_pc' = "call"
    /\ UNCHANGED <<gc_paths, gc_opts, gc_error, gen_attrs, out>>

\* double_expose_paths = isolated_paths if isolated_paths else [];
\* double_expose_paths.extend(bloom_compensation_paths);
\* generate(..., isolated_paths=double_expose_paths if double_expose_paths else None)
combine_double_expose ==
    /\ gc_pc = "main"
    /\ gc_isolated' = IF isolated_paths \o compensation_paths = <<>> THEN NoIsolated
                      ELSE [given |-> TRUE, paths |-> isolated_paths \o compensation_paths]
    /\ gc_pc' = "call"
    /\ UNCHANGED <<gc_paths, gc_opts, gc_error, gen_attrs, out>>

\* generate up to the first write: the check for no paths, the coordinate
\* transformation, self.isolated_paths, the time estimate
generate_begin ==
    /\ gc_pc = "call"
    /\ IF gc_paths = <<>>
       THEN /\ gc_pc' = "raised"
            /\ gc_error' = "ValueError"
            /\ UNCHANGED gen_attrs
       ELSE IF TimeEstimateRaises(AllPathsForTime(gc_paths, gc_isolated))
       THEN /\ gc_pc' = "raised"
            /\ gc_error' = "IndexError"
            /\ gen_attrs' = gen_attrs \cup SetupAttrs
       ELSE /\ gc_pc' = "header"
            /\ UNCHANGED gc_error
            /\ gen_attrs' = gen_attrs \cup SetupAttrs \cup {"time_estimate_minutes"}
    /\ UNCHANGED <<gcodeInputs, out>>

write_header ==
    /\ gc_pc = "header"
    /\ out' = out \o WriteHeader(gc_opts)
    /\ gc_pc' = "paths"
    /\ UNCHANGED <<gcodeInputs, gc_error, gen_attrs>>

write_paths ==
    /\ gc_pc = "paths"
    /\ out' = out \o WritePaths(gc_paths, gc_isolated,
                                TimeEstimateMs(AllPathsForTime(gc_paths, gc_isolated)))
    /\ gc_pc' = "footer"
    /\ UNCHANGED <<gcodeInputs, gc_error, gen_attrs>>

write_footer ==
    /\ gc_pc = "footer"
    /\ out' = out \o WriteFooter(gc_opts)
    /\ gc_pc' = "done"
    /\ UNCHANGED <<gcodeInputs, gc_error, gen_attrs>>

(***************************************************************************)
(* fill_generator.py: FillGenerator.generate_fill                          *)
(*                                                                         *)
(* A polygon is an axis-aligned rectangle or a disc, [kind, pad, x0, y0,    *)
(* x1, y1] with the bounding box of a disc and pad = TRUE when the Gerber  *)
(* file flashed it as a pad: for these buffer(-d) moves every side of the   *)
(* box inwards by d and the result is empty when no width or height is     *)
(* left.  A path is [src, type, x0, y0, x1, y1]: the closed ring *)
(* of a rectangle, the circle inscribed in the box, or the axis-aligned    *)
(* segment from (x0, y0) to (x1, y1).  Areas are kept multiplied by 7 and  *)
(* lengths in nanometres, with pi = 22/7.                                  *)
(***************************************************************************)
IterationLimit == 1000

DegenerateLength == 10000

RECURSIVE SumFrom(_, _)
SumFrom(s, i) == IF i > Len(s) THEN 0 ELSE s[i] + SumFrom(s, i + 1)

SumSeq(s) == Bind(s, LAMBDA v : SumFrom(v, 1))

\* the numbers of S in increasing order
SortSet(S) ==
    Bind(S, LAMBDA T :
        [i \in 1..Cardinality(T) |->
            CHOOSE x \in T : Cardinality({y \in T : y < x}) = i - 1])

\* the integer part of the square root of n, n <= bound * bound
Isqrt(n, bound) == CHOOSE k \in 0..bound : k * k <= n /\ (k + 1) * (k + 1) > n

\* a polygon without interior ring
Shape(kind, pad, x0, y0, x1, y1) ==
    [kind |-> kind, pad |-> pad, x0 |-> x0, y0 |-> y0, x1 |-> x1, y1 |-> y1, hole |-> 0,
     interiors |-> 0]

\* a round pad of diameter outer with a concentric round hole of diameter hole
Annulus(x0, y0, outer, hole) ==
    [kind |-> "disc", pad |-> TRUE, x0 |-> x0, y0 |-> y0, x1 |-> x0 + outer,
     y1 |-> y0 + outer, hole |-> hole, interiors |-> 1]

\* a round or oval pad, w wide and h high, with so many interior rings;
\* hole is twice the mean distance of the first interior ring from the
\* centroid (the diameter of the hole when it is the only one and centred),
\* and the contour loop sees the hole or holes as one of this diameter
PadWithHoles(x0, y0, w, h, hole, interiors) ==
    [kind |-> "disc", pad |-> TRUE, x0 |-> x0, y0 |-> y0, x1 |-> x0 + w,
     y1 |-> y0 + h, hole |-> hole, interiors |-> interiors]

\* the box around the hole of a polygon
HoleBox(s) ==
    [x0 |-> s.x0 + (s.x1 - s.x0 - s.hole) \div 2, y0 |-> s.y0 + (s.y1 - s.y0 - s.hole) \div 2,
     x1 |-> s.x0 + (s.x1 - s.x0 + s.hole) \div 2, y1 |-> s.y0 + (s.y1 - s.y0 + s.hole) \div 2]

Path(src, type, x0, y0, x1, y1) ==
    [src |-> src, type |-> type, x0 |-> x0, y0 |-> y0, x1 |-> x1, y1 |-> y1]

Width(s) == s.x1 - s.x0

Height(s) == s.y1 - s.y0

\* seven times the area of what a polygon has of boxArea of its bounding box
AreaOfBox7(kind, boxArea) == IF kind = "disc" THEN (22 * boxArea) \div 4 ELSE 7 * boxArea

\* poly.area, times 7
Area7(s) == AreaOfBox7(s.kind, Width(s) * Height(s)) - AreaOfBox7("disc", s.hole * s.hole)

\* _get_total_area, times 7
TotalArea7(geom) == SumSeq([i \in 1..Len(geom) |-> Area7(geom[i])])

\* path.length in nanometres
Length1000(p) ==
    CASE p.type = "ring"   -> 2000 * ((p.x1 - p.x0) + (p.y1 - p.y0))
      [] p.type = "circle" -> (22 * 1000 * (p.x1 - p.x0)) \div 7
      [] OTHER             -> 1000 * (Abs(p.x1 - p.x0) + Abs(p.y1 - p.y0))

LongerThanDegenerate(p) == Length1000(p) > DegenerateLength

Grow(s, d) == [s EXCEPT !.x0 = @ - d, !.y0 = @ - d, !.x1 = @ + d, !.y1 = @ + d]

\* geometry.buffer(-d) of one polygon: the exterior moves inward, the hole
\* grows; callers drop the empty results
Shrink(s, d) ==
    [s EXCEPT !.x0 = @ + d, !.y0 = @ + d, !.x1 = @ - d, !.y1 = @ - d,
              !.hole = IF @ > 0 THEN @ + 2 * d ELSE 0]

IsEmptyShape(s) == Width(s) <= 0 \/ Height(s) <= 0 \/ (s.hole > 0 /\ Width(s) <= s.hole)

\* _buffer_incremental and geometry.buffer(-distance) of a MultiPolygon
Buffer(geom, d) ==
    SelectSeq([i \in 1..Len(geom) |-> Shrink(geom[i], d)],
              LAMBDA s : ~IsEmptyShape(s))

\* _extract_boundaries: the exterior of every polygon, followed by its
\* interior ring when it has a hole
ExtractBoundaries(geom) ==
    Flatten([i \in 1..Len(geom) |->
        <<Path("contour", IF geom[i].kind = "disc" THEN "circle" ELSE "ring",
               geom[i].x0, geom[i].y0, geom[i].x1, geom[i].y1)>>
        \o IF geom[i].hole > 0
           THEN <<Path("contour", "circle", HoleBox(geom[i]).x0, HoleBox(geom[i]).y0,
                       HoleBox(geom[i]).x1, HoleBox(geom[i]).y1)>>
           ELSE <<>>])

\* the centerline of one polygon: the midpoints of the short sides of its
\* minimum rotated rectangle; when both sides are equal, squareAxis says
\* which pair of sides the vertex order of the rectangle makes "short"
Centerline(s, squareAxis) ==
    LET horizontal == Width(s) > Height(s) \/ (Width(s) = Height(s) /\ squareAxis = "h")
        mx == (s.x0 + s.x1) \div 2
        my == (s.y0 + s.y1) \div 2
    IN  IF horizontal THEN Path("centerline", "seg", s.x0, my, s.x1, my)
        ELSE Path("centerline", "seg", mx, s.y0, mx, s.y1)

NoCenterlines(geom, squareAxis) == <<>>

\* _extract_centerlines, which keeps the centerlines longer than 0.01
ExtractCenterlines(geom, squareAxis) ==
    SelectSeq([i \in 1..Len(geom) |-> Centerline(geom[i], squareAxis)],
              LongerThanDegenerate)

\* the geometry whose boundaries an iteration extracts
BoundarySource(geom, it, initial_offset) ==
    IF it = 0 /\ initial_offset > 0
    THEN IF Buffer(geom, initial_offset) # <<>> THEN Buffer(geom, initial_offset)
         ELSE geom
    ELSE geom

StopWhenEmpty(cur, next) == next = <<>>

\* next_geom.is_empty or (current_area > 0 and next_area < current_area * 0.1)
StopCondition(cur, next) ==
    \/ next = <<>>
    \/ (TotalArea7(cur) > 0 /\ TotalArea7(next) < (TotalArea7(cur) + 9) \div 10)

SameIteration(it) == it

\* iteration += 1
NextIteration(it) == it + 1

ExceedsLimitByTwo(it) == it > IterationLimit + 1

\* if iteration > 1000
ExceedsLimit(it) == it > IterationLimit

MaxThinPadSize == 4000

ThinRingInclusive(s, line_spacing) ==
    2 * line_spacing <= Width(s) - s.hole /\ Width(s) - s.hole <= 4 * line_spacing

\* line_spacing < ring_width < 2 * line_spacing, ring_width being half of
\* what the hole leaves of the diameter
ThinRing(s, line_spacing) ==
    2 * line_spacing < Width(s) - s.hole /\ Width(s) - s.hole < 4 * line_spacing

\* if len(poly.interiors) == 0: continue
HasInterior(s) == s.interiors # 0

\* _detect_thin_annular_pads_at_start: for every small round polygon with a
\* hole and a thin ring, the circle at the mid radius
DetectThinAnnularPadsAtStart(geom, opts) ==
    Flatten([i \in 1..Len(geom) |->
        IF /\ HasInterior(geom[i])
           /\ Max2(Width(geom[i]), Height(geom[i])) <= MaxThinPadSize
           /\ 100 * Max2(Width(geom[i]), Height(geom[i]))
                 <= 115 * (Min2(Width(geom[i]), Height(geom[i])) + 1)
           /\ ThinRing(geom[i], opts.line_spacing)
        THEN <<Path("thin_annular", "circle",
                    geom[i].x0 + (Width(geom[i]) - geom[i].hole) \div 4,
                    geom[i].y0 + (Width(geom[i]) - geom[i].hole) \div 4,
                    geom[i].x1 - (Width(geom[i]) - geom[i].hole) \div 4,
                    geom[i].y1 - (Width(geom[i]) - geom[i].hole) \div 4)>>
        ELSE <<>>])

\* _generate_forced_pad_centerlines for one pad, drill_holes being None:
\* [error, paths]
ForcedPadCenterlines(pad, opts) ==
    LET poly == IF opts.initial_offset > 0 THEN Shrink(pad, opts.initial_offset) ELSE pad
        cx   == (poly.x0 + poly.x1) \div 2
        cy   == (poly.y0 + poly.y1) \div 2
        cr   == Width(poly) \div 4
        plus == <<Path("forced_pad", "seg", poly.x0, cy, poly.x1, cy),
                  Path("forced_pad", "seg", cx, poly.y0, cx, poly.y1)>>
    IN  IF IsEmptyShape(poly) THEN [error |-> "none", paths |-> <<>>]
        ELSE IF pad.kind = "disc"
        THEN IF opts.line_spacing = 0
             THEN [error |-> "ZeroDivisionError", paths |-> <<>>]
             ELSE [error |-> "none",
                   paths |-> <<Path("forced_pad", "circle", cx - cr, cy - cr, cx + cr, cy + cr)>>]
        ELSE [error |-> "none", paths |-> SelectSeq(plus, LongerThanDegenerate)]

\* the pads the parser reports: the polygons that were flashed
PadsOf(geom) == SelectSeq(geom, LAMBDA s : s.pad)

\* _generate_forced_pad_centerlines over all pads
GenerateForcedPadCenterlines(geom, opts) ==
    LET each == [i \in 1..Len(PadsOf(geom)) |-> ForcedPadCenterlines(PadsOf(geom)[i], opts)]
    IN  IF \E i \in 1..Len(each) : each[i].error # "none"
        THEN [error |-> "ZeroDivisionError", paths |-> <<>>]
        ELSE [error |-> "none", paths |-> Flatten([i \in 1..Len(each) |-> each[i].paths])]

(***************************************************************************)
(* The inputs of generate_fill.                                            *)
(***************************************************************************)
\* a 0.42 mm trace, a 1 mm square pad, a 0.104 mm round pad; the polygons
\* of a geometry lie 20 mm apart
ShapeChoices == {"strip", "pad", "dotpad"}

\* two polygons too small to give a contour: 2 um square, 2 um round
SpeckChoices == {"speck", "rounddot"}

PlaceShape(name, slot) ==
    LET x == (slot - 1) * 20000
    IN  CASE name = "strip"    -> Shape("rect", FALSE, x, 0, x + 420, 2000)
          [] name = "pad"      -> Shape("rect", TRUE, x, 0, x + 1000, 1000)
          [] name = "dotpad"   -> Shape("disc", TRUE, x, 0, x + 104, 104)
          [] name = "bar"      -> Shape("rect", FALSE, x, 0, x + 1400, 3600)
          [] name = "ring100"  -> Annulus(x, 0, 1000, 800)
          [] name = "ring150"  -> Annulus(x, 0, 1000, 700)
          [] name = "ring200"  -> Annulus(x, 0, 1000, 600)
          [] name = "bigring"  -> Annulus(x, 0, 4400, 4100)
          [] name = "tworing"  -> PadWithHoles(x, 0, 1000, 1000, 700, 2)
          [] name = "ovalring" -> PadWithHoles(x, 0, 1000, 1200, 750, 1)
          [] name = "speck"    -> Shape("rect", TRUE, x, 0, x + 2, 2)
          [] OTHER             -> Shape("disc", TRUE, x, 0, x + 2, 2)

PlaceAll(names) == [i \in 1..Len(names) |-> PlaceShape(names[i], i)]

\* the centerline of the trace that runs along the first polygon
Midline(s) ==
    IF Width(s) > Height(s)
    THEN [line |-> Path("trace", "seg", s.x0, (s.y0 + s.y1) \div 2, s.x1, (s.y0 + s.y1) \div 2),
          width |-> Height(s)]
    ELSE [line |-> Path("trace", "seg", (s.x0 + s.x1) \div 2, s.y0, (s.x0 + s.x1) \div 2, s.y1),
          width |-> Width(s)]

\* the centerline of a 0.2 mm trace that crosses the first polygon
Crossing(s) ==
    IF Width(s) > Height(s)
    THEN [line |-> Path("trace", "seg", (s.x0 + s.x1) \div 2, s.y0 - 100,
                        (s.x0 + s.x1) \div 2, s.y1 + 100),
          width |-> 200]
    ELSE [line |-> Path("trace", "seg", s.x0 - 100, (s.y0 + s.y1) \div 2,
                        s.x1 + 100, (s.y0 + s.y1) \div 2),
          width |-> 200]

TraceChoicesFor(geom) ==
    IF geom = <<>> THEN {<<>>}
    ELSE {<<>>, <<Crossing(geom[1])>>, <<Midline(geom[1]), Crossing(geom[1])>>}

DefaultFillOptions ==
    [line_spacing |-> 100, initial_offset |-> 50,
     forced_pad_centerlines |-> FALSE, force_trace_centerlines |-> FALSE,
     force_trace_centerlines_max_thickness |-> 0, offset_centerlines |-> FALSE,
     double_expose_isolated |-> FALSE, isolation_threshold |-> 3000]

FillOptionChoices ==
    [line_spacing : {100}, initial_offset : {0, 50},
     forced_pad_centerlines : BOOLEAN, force_trace_centerlines : BOOLEAN,
     force_trace_centerlines_max_thickness : {0, 300}, offset_centerlines : BOOLEAN,
     double_expose_isolated : BOOLEAN, isolation_threshold : {0, 100, 3000}]

\* line_spacing = 0: buffering by it leaves the geometry as it is
StalledOptionChoices ==
    {[DefaultFillOptions EXCEPT !.line_spacing = 0, !.initial_offset = io,
                                !.forced_pad_centerlines = f] :
        io \in {0, 50}, f \in BOOLEAN}

\* a 1.4 mm x 3.6 mm bar looked at with isolation_threshold 1.4 mm: the
\* search zone of its outline is five times the bar
BarGeometryChoices == {PlaceAll(<<"bar">>), PlaceAll(<<"bar", "dotpad">>)}

BarOptionChoices ==
    {[DefaultFillOptions EXCEPT !.initial_offset = io, !.double_expose_isolated = TRUE,
                                !.isolation_threshold = 1400] : io \in {0, 50}}

\* a dense grid: 3 x 3 square pads of 1 mm at a pitch of 1.5 mm, looked at
\* with the default isolation_threshold
GridGeometry ==
    [k \in 1..9 |->
        Shape("rect", TRUE, 1500 * ((k - 1) % 3), 1500 * ((k - 1) \div 3),
              1500 * ((k - 1) % 3) + 1000, 1500 * ((k - 1) \div 3) + 1000)]

GridOptionChoices ==
    {[DefaultFillOptions EXCEPT !.initial_offset = io, !.double_expose_isolated = TRUE,
                                !.forced_pad_centerlines = f] :
        io \in {0, 50}, f \in BOOLEAN}

\* one 10 mm x 10 mm square region that is no pad
SquareGeometry == <<Shape("rect", FALSE, 0, 0, 10000, 10000)>>

\* round pads of 1 mm with a ring of 0.1, 0.15 and 0.2 mm around the hole, and
\* one of 4.4 mm with a ring of 0.15 mm
RingChoices == {"ring100", "ring150", "ring200", "bigring", "tworing", "ovalring"}

RingGeometryChoices ==
    {PlaceAll(<<name>>) : name \in RingChoices} \cup {PlaceAll(<<"ring200", "ring150">>)}

RingOptionChoices == {[DefaultFillOptions EXCEPT !.initial_offset = io] : io \in {0, 50}}

\* generate_fill of a run that is not being looked at
FillIdle ==
    /\ f_pc = "start"
    /\ f_error = "none"
    /\ geometry = <<>>
    /\ trace_centerlines = <<>>
    /\ fill_opts = DefaultFillOptions
    /\ faults = {}
    /\ current_geom = <<>>
    /\ iteration = 0
    /\ paths = <<>>
    /\ warning = FALSE
    /\ fill_result = [type |-> "none", normal |-> <<>>, isolated |-> <<>>]

\* the geometry is valid: no operation of the geometry library throws
InitFill ==
    /\ BloomIdle
    /\ GcodeIdle
    /\ TemplateIdle
    /\ LateIdle
    /\ f_pc = "start"
    /\ f_error = "none"
    /\ faults = {}
    /\ \/ /\ geometry \in {PlaceAll(names) : names \in SeqsUpTo(ShapeChoices, MaxPolys)}
          /\ trace_centerlines \in TraceChoicesFor(geometry)
          /\ fill_opts \in FillOptionChoices
          /\ trace_centerlines = <<>> =>
                ~fill_opts.force_trace_centerlines /\ ~fill_opts.offset_centerlines
          /\ fill_opts.force_trace_centerlines_max_thickness > 0
                => fill_opts.force_trace_centerlines
          /\ fill_opts.isolation_threshold # 3000 => fill_opts.double_expose_isolated
       \/ /\ geometry \in {PlaceAll(<<name>>) : name \in SpeckChoices}
          /\ trace_centerlines = <<>>
          /\ fill_opts \in StalledOptionChoices \cup {DefaultFillOptions}
       \/ /\ geometry \in BarGeometryChoices
          /\ trace_centerlines = <<>>
          /\ fill_opts \in BarOptionChoices
       \/ /\ geometry = GridGeometry
          /\ trace_centerlines = <<>>
          /\ fill_opts \in GridOptionChoices
       \/ /\ geometry = SquareGeometry
          /\ trace_centerlines = <<>>
          /\ fill_opts = DefaultFillOptions
       \/ /\ geometry \in RingGeometryChoices
          /\ trace_centerlines = <<>>
          /\ fill_opts \in RingOptionChoices
    /\ current_geom = <<>>
    /\ iteration = 0
    /\ paths = <<>>
    /\ warning = FALSE
    /\ fill_result = [type |-> "none", normal |-> <<>>, isolated |-> <<>>]

\* poly.buffer(-self.initial_offset) of the forced-pad pre-pass is in no try
PadOffsetThrows(geom, opts, flt) ==
    /\ opts.forced_pad_centerlines
    /\ PadsOf(geom) # <<>>
    /\ opts.initial_offset > 0
    /\ "pad_offset" \in flt

\* the body of the loop calls current_geom.buffer (first pass, with an
\* initial offset), _extract_boundaries and _buffer_incremental outside any try
LoopBodyThrows(flt) ==
    \/ "buffer" \in flt
    \/ "boundaries" \in flt

\* generate_fill up to the loop: thin annular pads, forced pad centerlines
\* (of pads without hole), current_geom = geometry
fill_prepass ==
    /\ f_pc = "start"
    /\ LET forced == IF fill_opts.forced_pad_centerlines
                     THEN GenerateForcedPadCenterlines(geometry, fill_opts)
                     ELSE [error |-> "none", paths |-> <<>>]
       IN  IF PadOffsetThrows(geometry, fill_opts, faults)
           THEN /\ f_pc' = "raised"
                /\ f_error' = "GEOSException"
                /\ UNCHANGED <<paths, current_geom>>
           ELSE IF forced.error # "none"
           THEN /\ f_pc' = "raised"
                /\ f_error' = forced.error
                /\ UNCHANGED <<paths, current_geom>>
           ELSE /\ f_pc' = "loop"
                /\ paths' = paths \o forced.paths
                                  \o DetectThinAnnularPadsAtStart(geometry, fill_opts)
                /\ current_geom' = geometry
                /\ UNCHANGED f_error
    /\ UNCHANGED <<fillInputs, iteration, warning, fill_result>>

\* one pass of "while not current_geom.is_empty", the test included
fill_loop ==
    /\ f_pc = "loop"
    /\ IF current_geom = <<>>
       THEN /\ f_pc' = "traces"
            /\ UNCHANGED <<f_error, paths, current_geom, iteration, warning>>
       ELSE IF LoopBodyThrows(faults)
       THEN /\ f_pc' = "raised"
            /\ f_error' = "GEOSException"
            /\ UNCHANGED <<paths, current_geom, iteration, warning>>
       ELSE \E squareAxis \in {"h", "v"} :
            LET boundary_paths ==
                    SelectSeq(ExtractBoundaries(
                                  BoundarySource(current_geom, iteration,
                                                 fill_opts.initial_offset)),
                              LongerThanDegenerate)
                next_geom == Buffer(current_geom, fill_opts.line_spacing)
            IN  IF StopCondition(current_geom, next_geom)
                THEN /\ paths' = paths \o boundary_paths
                                       \o IF "centerlines" \in faults THEN <<>>
                                          ELSE ExtractCenterlines(current_geom, squareAxis)
                     /\ f_pc' = "traces"
                     /\ UNCHANGED f_error
                     /\ UNCHANGED <<current_geom, iteration, warning>>
                ELSE /\ paths' = paths \o boundary_paths
                     /\ current_geom' = next_geom
                     /\ iteration' = NextIteration(iteration)
                     /\ UNCHANGED f_error
                     /\ IF ExceedsLimit(iteration')
                        THEN warning' = TRUE /\ f_pc' = "traces"
                        ELSE UNCHANGED <<warning, f_pc>>
    /\ UNCHANGED <<fillInputs, fill_result>>

(***************************************************************************)
(* The trace centerline pass.  Trace centerlines are axis-aligned, so      *)
(* what a filled zone covers of one is a set of intervals along it; a      *)
(* vertical line is handled as a horizontal one with x and y exchanged.    *)
(***************************************************************************)
Transpose(r) == [r EXCEPT !.x0 = r.y0, !.y0 = r.x0, !.x1 = r.y1, !.y1 = r.x1]

IsHorizontal(line) == line.y0 = line.y1

Side(x0, y0, x1, y1) == [x0 |-> x0, y0 |-> y0, x1 |-> x1, y1 |-> y1]

\* the straight pieces of a path; a circle counts as the ring of its box
SidesOf(p) ==
    IF p.type = "seg" THEN {Side(p.x0, p.y0, p.x1, p.y1)}
    ELSE {Side(p.x0, p.y0, p.x1, p.y0), Side(p.x0, p.y1, p.x1, p.y1),
          Side(p.x0, p.y0, p.x0, p.y1), Side(p.x1, p.y0, p.x1, p.y1)}

NoInterval == <<1, 0>>

\* the part of the line y = yc within distance b of a side, as <<lo, hi>>
CoverInterval(yc, sd, b) ==
    IF sd.y0 = sd.y1
    THEN IF Abs(yc - sd.y0) > b THEN NoInterval
         ELSE Bind(Isqrt(b * b - (yc - sd.y0) * (yc - sd.y0), b),
                   LAMBDA s : <<sd.x0 - s, sd.x1 + s>>)
    ELSE IF sd.y0 <= yc /\ yc <= sd.y1 THEN <<sd.x0 - b, sd.x0 + b>>
    ELSE IF Min2(Abs(yc - sd.y0), Abs(yc - sd.y1)) > b THEN NoInterval
    ELSE Bind(Isqrt(b * b - Min2(Abs(yc - sd.y0), Abs(yc - sd.y1))
                                * Min2(Abs(yc - sd.y0), Abs(yc - sd.y1)), b),
              LAMBDA s : <<sd.x0 - s, sd.x0 + s>>)

\* path.buffer(buffer_distance) of every contour path longer than 0.01,
\* as the intervals it covers of the line y = yc
ZoneIntervals(yc, zonePaths, b) ==
    {c \in {CoverInterval(yc, sd, b) : sd \in UNION {SidesOf(p) : p \in Range(zonePaths)}} :
        c[1] < c[2]}

\* the part of the line y = yc from xa to xb inside one polygon
ChordOf(s, yc, xa, xb) ==
    IF s.kind = "disc"
    THEN LET r  == Width(s) \div 2
             cx == (s.x0 + s.x1) \div 2
             dy == Abs(yc - (s.y0 + s.y1) \div 2)
         IN  IF dy > r THEN NoInterval
             ELSE <<Max2(xa, cx - Isqrt(r * r - dy * dy, r)),
                    Min2(xb, cx + Isqrt(r * r - dy * dy, r))>>
    ELSE IF s.y0 <= yc /\ yc <= s.y1 THEN <<Max2(xa, s.x0), Min2(xb, s.x1)>>
         ELSE NoInterval

\* the ends of the intervals, in increasing order
Breakpoints(intervals) ==
    SortSet({c[1] : c \in intervals} \cup {c[2] : c \in intervals})

\* the pieces between neighbouring points of pts that lie in an interval of
\* chords and in no interval of covers, in order
UncoveredPieces(pts, chords, covers) ==
    Bind(pts, LAMBDA q :
        SelectSeq([i \in 1..(Len(q) - 1) |-> <<q[i], q[i + 1]>>],
                  LAMBDA g : /\ \E c \in chords : c[1] <= g[1] /\ g[2] <= c[2]
                             /\ ~\E c \in covers : c[1] <= g[1] /\ g[2] <= c[2]))

\* the polygons cut the line y = line.y0 into chords
Chords(line, geom) ==
    {c \in {ChordOf(s, line.y0, line.x0, line.x1) : s \in Range(geom)} : c[1] < c[2]}

\* line.intersection(geometry.difference(filled_zone)) for a horizontal line
CorridorSegmentsH(line, geom, zonePaths, b) ==
    Bind(<<Chords(line, geom), ZoneIntervals(line.y0, zonePaths, b)>>, LAMBDA cz :
        Bind(UncoveredPieces(Breakpoints(cz[1] \cup cz[2]), cz[1], cz[2]), LAMBDA pieces :
            [k \in 1..Len(pieces) |->
                Path("trace", "seg", pieces[k][1], line.y0, pieces[k][2], line.y0)]))

TransposeAll(rs) == Bind(rs, LAMBDA v : [i \in 1..Len(v) |-> Transpose(v[i])])

CorridorSegments(line, geom, zonePaths, b) ==
    IF IsHorizontal(line) THEN CorridorSegmentsH(line, geom, zonePaths, b)
    ELSE Bind(<<Transpose(line), TransposeAll(geom), TransposeAll(zonePaths)>>, LAMBDA t :
             TransposeAll(CorridorSegmentsH(t[1], t[2], t[3], b)))

\* _offset_line_from_ends: <<>> for None, else the trimmed line
OffsetLineFromEnds(line, offset) ==
    IF Length1000(line) <= 2000 * offset THEN <<>>
    ELSE IF IsHorizontal(line)
    THEN <<[line EXCEPT !.x0 = @ + offset, !.x1 = @ - offset]>>
    ELSE <<[line EXCEPT !.y0 = @ + offset, !.y1 = @ - offset]>>

\* trimmed and trimmed.length >= line_spacing * 2.5
KeepTrimmed(line, line_spacing) ==
    SelectSeq(OffsetLineFromEnds(line, line_spacing),
              LAMBDA t : 2 * Length1000(t) >= 5 * 1000 * line_spacing)

\* segment.length >= min_length_threshold, without end offsets
AtLeastDegenerate(p) == Length1000(p) >= DegenerateLength

\* _clip_centerlines_avoiding_filled_zones
ClipCenterlinesAvoidingFilledZones(lines, geom, zonePaths, opts) ==
    Flatten([i \in 1..Len(lines) |->
        Bind(CorridorSegments(lines[i], geom, zonePaths, opts.line_spacing \div 2),
             LAMBDA segments :
                IF opts.offset_centerlines
                THEN Flatten([k \in 1..Len(segments) |->
                                 KeepTrimmed(segments[k], opts.line_spacing)])
                ELSE SelectSeq(segments, AtLeastDegenerate))])

\* _clip_centerlines_to_geometry
ClipCenterlinesToGeometry(lines, geom) ==
    Flatten([i \in 1..Len(lines) |->
        SelectSeq(CorridorSegments(lines[i], geom, <<>>, 0), LongerThanDegenerate)])

\* the branch of generate_fill for force_trace_centerlines
ForcedTraceCenterlines(traces, opts) ==
    LET filtered == SelectSeq(traces, LAMBDA tc :
                        \/ opts.force_trace_centerlines_max_thickness <= 0
                        \/ tc.width <= opts.force_trace_centerlines_max_thickness)
    IN  IF opts.offset_centerlines
        THEN Flatten([i \in 1..Len(filtered) |->
                         KeepTrimmed(filtered[i].line, opts.line_spacing)])
        ELSE SelectSeq([i \in 1..Len(filtered) |-> filtered[i].line],
                       LongerThanDegenerate)

\* _create_filled_zone keeps the contour paths longer than 0.01 whose
\* buffer is not empty
FilledZonePaths(contour_paths, opts) ==
    IF opts.line_spacing \div 2 <= 0 THEN <<>>
    ELSE SelectSeq(contour_paths, LongerThanDegenerate)

\* _create_filled_zone returns an empty zone when buffering or the union
\* throws
FilledZoneOrEmpty(contour_paths, opts, flt) ==
    IF "filled_zone" \in flt THEN <<>> ELSE FilledZonePaths(contour_paths, opts)

\* geometry.buffer(-self.line_spacing * 0.5), taken when the filled zone is
\* empty, is in no try
TracePassThrows(traces, contour_paths, opts, flt) ==
    /\ traces # <<>>
    /\ ~opts.force_trace_centerlines
    /\ FilledZoneOrEmpty(contour_paths, opts, flt) = <<>>
    /\ "buffer" \in flt

\* what the trace pass appends to paths; a centerline whose clipping throws
\* is skipped
TracePass(traces, geom, contour_paths, opts, flt) ==
    IF traces = <<>> THEN <<>>
    ELSE IF opts.force_trace_centerlines THEN ForcedTraceCenterlines(traces, opts)
    ELSE IF "clip" \in flt THEN <<>>
    ELSE Bind(<<[i \in 1..Len(traces) |-> traces[i].line],
                FilledZoneOrEmpty(contour_paths, opts, flt),
                Buffer(geom, opts.line_spacing \div 2)>>, LAMBDA v :
             IF v[2] # <<>> THEN ClipCenterlinesAvoidingFilledZones(v[1], geom, v[2], opts)
             ELSE IF v[3] # <<>> THEN ClipCenterlinesToGeometry(v[1], v[3])
             ELSE <<>>)

\* until the trace pass contour_paths holds the same paths as paths
fill_trace_pass ==
    /\ f_pc = "traces"
    /\ IF TracePassThrows(trace_centerlines, paths, fill_opts, faults)
       THEN /\ f_pc' = "raised"
            /\ f_error' = "GEOSException"
            /\ UNCHANGED paths
       ELSE /\ paths' = paths \o TracePass(trace_centerlines, geometry, paths, fill_opts,
                                            faults)
            /\ f_pc' = "split"
            /\ UNCHANGED f_error
    /\ UNCHANGED <<fillInputs, current_geom, iteration, warning, fill_result>>

(***************************************************************************)
(* The isolation split.  The search zone of a path is the path buffered    *)
(* by isolation_threshold; its area is exact, the copper in it is taken    *)
(* over the bounding box of the zone less the hole of the zone.            *)
(***************************************************************************)
Box(x0, y0, x1, y1) == [x0 |-> x0, y0 |-> y0, x1 |-> x1, y1 |-> y1]

BoxArea(b) == Max2(0, b.x1 - b.x0) * Max2(0, b.y1 - b.y0)

Overlap(a, b) ==
    BoxArea(Box(Max2(a.x0, b.x0), Max2(a.y0, b.y0), Min2(a.x1, b.x1), Min2(a.y1, b.y1)))

\* search_zone.area, times 7
ZoneArea7(p, t) ==
    LET w == Abs(p.x1 - p.x0)
        h == Abs(p.y1 - p.y0)
    IN  CASE p.type = "seg"    -> 7 * 2 * t * (w + h) + 22 * t * t
          [] p.type = "circle" -> 22 * ((w \div 2 + t) * (w \div 2 + t)
                                        - Max2(0, w \div 2 - t) * Max2(0, w \div 2 - t))
          [] OTHER             -> 7 * ((w + 2 * t) * (h + 2 * t)
                                       - Max2(0, w - 2 * t) * Max2(0, h - 2 * t))
                                  - (4 * 7 - 22) * t * t

CopperOfOwnPolygon7(p, t, geom) ==
    SumSeq([i \in 1..Len(geom) |->
        IF geom[i].x0 <= Min2(p.x0, p.x1) /\ Max2(p.x0, p.x1) <= geom[i].x1
           /\ geom[i].y0 <= Min2(p.y0, p.y1) /\ Max2(p.y0, p.y1) <= geom[i].y1
        THEN Area7(geom[i]) ELSE 0])

\* copper_in_zone.area, times 7
CopperInZone7(p, t, geom) ==
    LET outer == Box(p.x0 - t, p.y0 - t, p.x1 + t, p.y1 + t)
        hole  == IF p.type = "seg" THEN Box(0, 0, 0, 0)
                 ELSE Box(p.x0 + t, p.y0 + t, p.x1 - t, p.y1 - t)
    IN  SumSeq([i \in 1..Len(geom) |->
            AreaOfBox7(geom[i].kind, Overlap(geom[i], outer) - Overlap(geom[i], hole))
            - AreaOfBox7("disc", Overlap(HoleBox(geom[i]), outer)
                                 - Overlap(HoleBox(geom[i]), hole))])

IsPathIsolatedOrEqual(p, geom, t) ==
    ZoneArea7(p, t) > 0 /\ CopperInZone7(p, t, geom) <= ZoneArea7(p, t) \div 5

\* _is_path_isolated: copper_density < 0.20
IsPathIsolated(p, geom, t) ==
    ZoneArea7(p, t) > 0 /\ CopperInZone7(p, t, geom) < (ZoneArea7(p, t) + 4) \div 5

FillResultByFlagOnly(ps, geom, opts) ==
    IF opts.double_expose_isolated
    THEN [type     |-> "dict",
          normal   |-> SelectSeq(ps, LAMBDA p :
                           ~IsPathIsolated(p, geom, opts.isolation_threshold)),
          isolated |-> SelectSeq(ps, LAMBDA p :
                           IsPathIsolated(p, geom, opts.isolation_threshold))]
    ELSE [type |-> "list", normal |-> ps, isolated |-> <<>>]

\* _separate_isolated_paths and the return statement of generate_fill
FillResult(ps, geom, opts) ==
    IF opts.double_expose_isolated /\ opts.isolation_threshold > 0
    THEN [type     |-> "dict",
          normal   |-> SelectSeq(ps, LAMBDA p :
                           ~IsPathIsolated(p, geom, opts.isolation_threshold)),
          isolated |-> SelectSeq(ps, LAMBDA p :
                           IsPathIsolated(p, geom, opts.isolation_threshold))]
    ELSE [type |-> "list", normal |-> ps, isolated |-> <<>>]

\* path.buffer and search_zone.intersection of _is_path_isolated are in no try
SplitThrows(ps, opts, flt) ==
    /\ opts.double_expose_isolated
    /\ opts.isolation_threshold > 0
    /\ ps # <<>>
    /\ "density" \in flt

fill_return ==
    /\ f_pc = "split"
    /\ IF SplitThrows(paths, fill_opts, faults)
       THEN /\ f_pc' = "raised"
            /\ f_error' = "GEOSException"
            /\ UNCHANGED fill_result
       ELSE /\ fill_result' = FillResult(paths, geometry, fill_opts)
            /\ f_pc' = "done"
            /\ UNCHANGED f_error
    /\ UNCHANGED <<fillInputs, current_geom, iteration, paths, warning>>

NextFill ==
    \/ fill_prepass /\ UNCHANGED <<bloomVars, gcodeVars, templateVars, lateVars>>
    \/ fill_loop /\ UNCHANGED <<bloomVars, gcodeVars, templateVars, lateVars>>
    \/ fill_trace_pass /\ UNCHANGED <<bloomVars, gcodeVars, templateVars, lateVars>>
    \/ fill_return /\ UNCHANGED <<bloomVars, gcodeVars, templateVars, lateVars>>

SpecFill == InitFill /\ [][NextFill]_vars

\* generate_fill is straight-line code: whenever it can take a step it does
SpecFillFair == SpecFill /\ WF_vars(NextFill)

\* the operations of the geometry library that generate_fill calls
FaultOps == {"pad_offset", "buffer", "boundaries", "centerlines", "filled_zone", "clip",
             "density"}

ThrowingGeometryChoices == {PlaceAll(<<"pad">>), PlaceAll(<<"strip", "pad">>)}

ThrowingOptionChoices ==
    {[DefaultFillOptions EXCEPT !.forced_pad_centerlines = f,
                                !.double_expose_isolated = d] : f, d \in BOOLEAN}

\* generate_fill on a geometry on which up to two of the operations throw
InitFillThrows ==
    /\ BloomIdle
    /\ GcodeIdle
    /\ TemplateIdle
    /\ LateIdle
    /\ f_pc = "start"
    /\ f_error = "none"
    /\ geometry \in ThrowingGeometryChoices
    /\ trace_centerlines \in TraceChoicesFor(geometry)
    /\ fill_opts \in ThrowingOptionChoices
    /\ faults \in {F \in SUBSET FaultOps : Cardinality(F) \in 1..2}
    /\ current_geom = <<>>
    /\ iteration = 0
    /\ paths = <<>>
    /\ warning = FALSE
    /\ fill_result = [type |-> "none", normal |-> <<>>, isolated |-> <<>>]

SpecFillThrows == InitFillThrows /\ [][NextFill]_vars

\* generate is called with any arguments, or main is about to call it with
\* the lists it has collected
InitGcode ==
    /\ BloomIdle
    /\ FillIdle
    /\ TemplateIdle
    /\ ConfigIdle
    /\ RestIdle
    /\ gc_error = "none"
    /\ gc_paths \in SeqsUpTo(PathChoices, MaxGcodePaths)
    /\ \/ /\ gc_pc = "call"
          /\ gc_isolated \in IsolatedChoices
          /\ HandoffIdle
       \/ /\ gc_pc = "main"
          /\ gc_isolated = NoIsolated
          /\ isolated_paths \in SeqsUpTo(PathChoices, 1)
          /\ compensation_paths \in SeqsUpTo(PathChoices, 1)
    /\ gc_opts \in GcodeOptions
    /\ gen_attrs = {}
    /\ out = <<>>

NextGcode ==
    \/ combine_double_expose /\ UNCHANGED <<bloomVars, fillVars, templateVars, lateVars>>
    \/ generate_begin /\ UNCHANGED <<bloomVars, fillVars, templateVars, lateVars>>
    \/ write_header /\ UNCHANGED <<bloomVars, fillVars, templateVars, lateVars>>
    \/ write_paths /\ UNCHANGED <<bloomVars, fillVars, templateVars, lateVars>>
    \/ write_footer /\ UNCHANGED <<bloomVars, fillVars, templateVars, lateVars>>

SpecGcode == InitGcode /\ [][NextGcode]_vars

(***************************************************************************)
(* cli.main: the G-code file, then the drilling template                   *)
(***************************************************************************)
\* the generator main builds here: no outline, homing, no arm commands
PlainGcodeOptions == [outline |-> "none", mode |-> "home", arm |-> FALSE, disarm |-> FALSE]

InitTemplate ==
    /\ BloomIdle
    /\ FillIdle
    /\ LateIdle
    /\ gc_pc = "call"
    /\ gc_error = "none"
    /\ gc_paths \in SeqsUpTo(PathChoices, MaxGcodePaths)
    /\ gc_isolated = NoIsolated
    /\ gc_opts = PlainGcodeOptions
    /\ gen_attrs = {}
    /\ out = <<>>
    /\ main_pc = "gcode"
    /\ tmpl_in \in TemplateInputs
    /\ renderer_runs = 0
    /\ stl_success = "none"
    /\ exit_code = "none"

\* the with-block around gcode_gen.generate is left: the file is closed; an
\* exception of generate leaves main
save_gcode ==
    /\ main_pc = "gcode"
    /\ gc_pc \in {"done", "raised"}
    /\ main_pc' = IF gc_pc = "done" THEN "saved" ELSE "aborted"
    /\ UNCHANGED <<tmpl_in, renderer_runs, stl_success, exit_code, gcodeVars>>

\* generate_stl up to subprocess.run: a missing template file makes it
\* return False at once; otherwise the renderer is started
generate_stl_begin ==
    /\ main_pc = "saved"
    /\ tmpl_in.requested /\ tmpl_in.pin_mode
    /\ IF tmpl_in.renderer.template = "missing"
       THEN /\ stl_success' = "False"
            /\ main_pc' = "template_done"
            /\ UNCHANGED renderer_runs
       ELSE /\ renderer_runs' = renderer_runs + 1
            /\ main_pc' = "rendering"
            /\ UNCHANGED stl_success
    /\ UNCHANGED <<tmpl_in, exit_code, gcodeVars>>

RendererFails(r) ==
    \/ r.binary = "not_found"
    \/ r.seconds > OpenscadTimeout
    \/ r.returncode # 0

run_openscad_and_retry ==
    /\ main_pc = "rendering"
    /\ IF RendererFails(tmpl_in.renderer) /\ renderer_runs < 2
       THEN /\ renderer_runs' = renderer_runs + 1
            /\ UNCHANGED <<main_pc, stl_success>>
       ELSE /\ stl_success' = IF RendererFails(tmpl_in.renderer) THEN "False" ELSE "True"
            /\ main_pc' = "template_done"
            /\ UNCHANGED renderer_runs
    /\ UNCHANGED <<tmpl_in, exit_code, gcodeVars>>

\* subprocess.run and the rest of generate_stl: FileNotFoundError,
\* TimeoutExpired and a non-zero return code all end in "return False"
run_openscad ==
    /\ main_pc = "rendering"
    /\ stl_success' = IF RendererFails(tmpl_in.renderer) THEN "False" ELSE "True"
    /\ main_pc' = "template_done"
    /\ UNCHANGED <<tmpl_in, renderer_runs, exit_code, gcodeVars>>

\* return 0, after the template or without one (not requested, or
\* requested without pin mode: a warning only)
main_return ==
    /\ \/ main_pc = "template_done"
       \/ main_pc = "saved" /\ ~(tmpl_in.requested /\ tmpl_in.pin_mode)
    /\ exit_code' = 0
    /\ main_pc' = "returned"
    /\ UNCHANGED <<tmpl_in, renderer_runs, stl_success, gcodeVars>>

NextTemplate ==
    \/ generate_begin /\ UNCHANGED <<bloomVars, fillVars, templateVars, lateVars>>
    \/ write_header /\ UNCHANGED <<bloomVars, fillVars, templateVars, lateVars>>
    \/ write_paths /\ UNCHANGED <<bloomVars, fillVars, templateVars, lateVars>>
    \/ write_footer /\ UNCHANGED <<bloomVars, fillVars, templateVars, lateVars>>
    \/ save_gcode /\ UNCHANGED <<bloomVars, fillVars, lateVars>>
    \/ generate_stl_begin /\ UNCHANGED <<bloomVars, fillVars, lateVars>>
    \/ run_openscad /\ UNCHANGED <<bloomVars, fillVars, lateVars>>
    \/ main_return /\ UNCHANGED <<bloomVars, fillVars, lateVars>>

SpecTemplate == InitTemplate /\ [][NextTemplate]_vars

(***************************************************************************)
(* cli.main: the config file and the settings                              *)
(***************************************************************************)
InitConfig ==
    /\ BloomIdle
    /\ GcodeIdle
    /\ FillIdle
    /\ TemplateIdle
    /\ HandoffIdle
    /\ RestIdle
    /\ cfg_pc = "args"
    /\ cli_args \in ArgChoices
    /\ config_file \in ConfigFileChoices
    /\ ~config_file.given => config_file = NoConfigFile
    /\ ~config_file.exists => config_file.dict = EmptyConfig
    /\ config = EmptyConfig
    /\ unknown_warning = FALSE
    /\ settings = NoSettings

\* load_config cannot read the file: sys.exit(1)
ConfigUnreadable(f) ==
    \/ ~f.exists
    \/ f.suffix \notin {".json", ".yaml"}
    \/ f.suffix = ".yaml" /\ ~f.yaml_available

\* if args.config: config = load_config(args.config); unknown keys are
\* printed as a warning and stay in the dict
load_config ==
    /\ cfg_pc = "args"
    /\ config_file.given
    /\ IF ConfigUnreadable(config_file)
       THEN /\ cfg_pc' = "exited"
            /\ UNCHANGED <<config, unknown_warning>>
       ELSE /\ cfg_pc' = "loaded"
            /\ config' = config_file.dict
            /\ unknown_warning' = config_file.dict.unknown
    /\ UNCHANGED <<cli_args, config_file, settings>>

\* no --config: config = {}
no_config ==
    /\ cfg_pc = "args"
    /\ ~config_file.given
    /\ cfg_pc' = "loaded"
    /\ UNCHANGED <<cli_args, config_file, config, unknown_warning, settings>>

\* "Get all settings": every setting comes from get_value, except
\* normalize_origin = not args.no_normalize
get_settings ==
    /\ cfg_pc = "loaded"
    /\ settings' = [key \in SettingKeys |->
                        IF key = "no_normalize" THEN {cli_args.no_normalize}
                        ELSE GetValue(cli_args, config, key)]
    /\ cfg_pc' = "resolved"
    /\ UNCHANGED <<cli_args, config_file, config, unknown_warning>>

NextConfig ==
    \/ load_config /\ UNCHANGED <<bloomVars, gcodeVars, fillVars, templateVars, handoffVars, restVars>>
    \/ no_config /\ UNCHANGED <<bloomVars, gcodeVars, fillVars, templateVars, handoffVars, restVars>>
    \/ get_settings /\ UNCHANGED <<bloomVars, gcodeVars, fillVars, templateVars, handoffVars, restVars>>

SpecConfig == InitConfig /\ [][NextConfig]_vars

(***************************************************************************)
(* cli.main in pin alignment mode: PinAlignmentUI, the transformation and  *)
(* the path points GCodeGenerator writes with it. Lengths are in           *)
(* micrometres.                                                            *)
(***************************************************************************)
PthChoices ==
    {<<>>, <<Hole(2000, 1000, 1000)>>,
     <<Hole(2000, 1000, 1000), Hole(8000, 9000, 1000)>>}

NpthChoices ==
    {<<>>, <<Hole(5000, 1000, 3000)>>,
     <<Hole(5000, 1000, 3000), Hole(5000, 9000, 3000)>>}

\* the board outline, when the Gerber files have one
PinOutlineChoices == {{}, {<<0, 0, 10000, 10000>>}}

PinInputs ==
    [pth_holes : PthChoices, npth_holes : NpthChoices,
     x_offset : {0, 500}, y_offset : {0, 300},
     flip_horizontal : BOOLEAN, pin_macro : BOOLEAN,
     board_outline_bounds : PinOutlineChoices,
     bounds : {<<1000, 500, 7000, 9500>>}]

InitPin ==
    /\ BloomIdle
    /\ GcodeIdle
    /\ FillIdle
    /\ TemplateIdle
    /\ ConfigIdle
    /\ HandoffIdle
    /\ RasterIdle
    /\ pin_pc = "main"
    /\ pin_in \in PinInputs
    /\ all_holes = <<>>
    /\ selected_holes = <<>>
    /\ selected_pins = {}
    /\ confirmed = FALSE
    /\ cancelled = FALSE
    /\ selected = {}
    /\ pin_transform = {}
    /\ pin_gen = {}
    /\ moved = {}

WithType(holes, type) ==
    [i \in 1..Len(holes) |->
        [x |-> holes[i].x, y |-> holes[i].y, diameter |-> holes[i].diameter,
         type |-> type]]

\* list.remove: the first occurrence goes
RemoveFirst(list, v) ==
    LET i == CHOOSE k \in 1..Len(list) :
                 list[k] = v /\ \A j \in 1..(k - 1) : list[j] # v
    IN  SubSeq(list, 1, i - 1) \o SubSeq(list, i + 1, Len(list))

InList(list, v) == \E k \in 1..Len(list) : list[k] = v

\* no drill holes: main returns 1 before the dialog
no_drill_holes ==
    /\ pin_pc = "main"
    /\ pin_in.pth_holes = <<>> /\ pin_in.npth_holes = <<>>
    /\ pin_pc' = "return1"
    /\ UNCHANGED <<pin_in, all_holes, selected_holes, selected_pins, confirmed,
                   cancelled, selected, pin_transform, pin_gen, moved>>

\* show_board up to plt.show(): the holes are combined and the window opens
show_board ==
    /\ pin_pc = "main"
    /\ ~(pin_in.pth_holes = <<>> /\ pin_in.npth_holes = <<>>)
    /\ all_holes' = WithType(pin_in.pth_holes, "pth") \o WithType(pin_in.npth_holes, "npth")
    /\ pin_pc' = "ui"
    /\ UNCHANGED <<pin_in, selected_holes, selected_pins, confirmed, cancelled,
                   selected, pin_transform, pin_gen, moved>>

\* the click handler that selects a third hole as well
on_click_unbounded ==
    /\ pin_pc = "ui"
    /\ \E clicked_hole \in 1..Len(all_holes) :
          selected_holes' =
              IF InList(selected_holes, clicked_hole)
              THEN RemoveFirst(selected_holes, clicked_hole)
              ELSE Append(selected_holes, clicked_hole)
    /\ UNCHANGED <<pin_pc, pin_in, all_holes, selected_pins, confirmed, cancelled,
                   selected, pin_transform, pin_gen, moved>>

\* _on_click on a hole; a click elsewhere returns without a change
on_click ==
    /\ pin_pc = "ui"
    /\ \E clicked_hole \in 1..Len(all_holes) :
          selected_holes' =
              IF InList(selected_holes, clicked_hole)
              THEN RemoveFirst(selected_holes, clicked_hole)
              ELSE IF Len(selected_holes) < 2
                   THEN Append(selected_holes, clicked_hole)
                   ELSE selected_holes
    /\ UNCHANGED <<pin_pc, pin_in, all_holes, selected_pins, confirmed, cancelled,
                   selected, pin_transform, pin_gen, moved>>

\* _on_confirm: with two holes it stores them and closes the window
on_confirm ==
    /\ pin_pc = "ui"
    /\ IF Len(selected_holes) # 2
       THEN UNCHANGED <<pin_pc, selected_pins, confirmed, cancelled>>
       ELSE /\ selected_pins' = {<<all_holes[selected_holes[1]],
                                   all_holes[selected_holes[2]]>>}
            /\ confirmed' = TRUE
            /\ cancelled' = FALSE
            /\ pin_pc' = "closed"
    /\ UNCHANGED <<pin_in, all_holes, selected_holes, selected, pin_transform,
                   pin_gen, moved>>

on_cancel ==
    /\ pin_pc = "ui"
    /\ cancelled' = TRUE
    /\ confirmed' = FALSE
    /\ selected_pins' = {}
    /\ pin_pc' = "closed"
    /\ UNCHANGED <<pin_in, all_holes, selected_holes, selected, pin_transform,
                   pin_gen, moved>>

\* the user closes the window: plt.show() returns and no handler has run
close_window ==
    /\ pin_pc = "ui"
    /\ pin_pc' = "closed"
    /\ UNCHANGED <<pin_in, all_holes, selected_holes, selected_pins, confirmed,
                   cancelled, selected, pin_transform, pin_gen, moved>>

\* show_board after plt.show()
show_board_return ==
    /\ pin_pc = "closed"
    /\ selected' = IF cancelled \/ ~confirmed THEN {} ELSE selected_pins
    /\ pin_pc' = "selected"
    /\ UNCHANGED <<pin_in, all_holes, selected_holes, selected_pins, confirmed,
                   cancelled, pin_transform, pin_gen, moved>>

get_pin_alignment_transform(pin1, pin2) ==
    IF pin1.y < pin2.y
    THEN [rotate_180 |-> FALSE, translate_x |-> -pin1.x, translate_y |-> -pin1.y,
          origin_x |-> pin1.x, origin_y |-> pin1.y]
    ELSE [rotate_180 |-> TRUE, translate_x |-> -pin1.x, translate_y |-> -pin1.y,
          origin_x |-> pin1.x, origin_y |-> pin1.y]

\* main's pin_transform in macro mode and in standard mode
PinTransformOf(pin1, pin2, pin_macro) ==
    LET base_transform == get_pin_alignment_transform(pin1, pin2)
    IN  IF pin_macro
        THEN [rotate_180 |-> base_transform.rotate_180,
              translate_x |-> -pin1.x, translate_y |-> -pin1.y,
              origin_x |-> pin1.x, origin_y |-> pin1.y, use_macro |-> TRUE]
        ELSE [rotate_180 |-> base_transform.rotate_180,
              translate_x |-> base_transform.translate_x,
              translate_y |-> base_transform.translate_y,
              origin_x |-> base_transform.origin_x,
              origin_y |-> base_transform.origin_y, use_macro |-> FALSE]

\* main with the dialog's result: None ends the run with 0
main_pin_transform ==
    /\ pin_pc = "selected"
    /\ IF selected = {}
       THEN pin_pc' = "return0" /\ UNCHANGED pin_transform
       ELSE /\ pin_transform' =
                  {PinTransformOf(pins[1], pins[2], pin_in.pin_macro) : pins \in selected}
            /\ pin_pc' = "transform"
    /\ UNCHANGED <<pin_in, all_holes, selected_holes, selected_pins, confirmed,
                   cancelled, selected, pin_gen, moved>>

\* generate: the flip centre and the transformation of pin alignment mode
PinGenerateAttrs(in, transform) ==
    [flip_center_x |->
         IF in.flip_horizontal
         THEN IF in.board_outline_bounds # {}
              THEN LET b == CHOOSE b \in in.board_outline_bounds : TRUE
                   IN  (b[1] + b[3]) \div 2
              ELSE (in.bounds[1] + in.bounds[3]) \div 2
         ELSE 0,
     flip_horizontal |-> in.flip_horizontal,
     transform_x |-> transform.translate_x + in.x_offset,
     transform_y |-> transform.translate_y + in.y_offset,
     rotate_180 |-> transform.rotate_180,
     rotation_center_x |-> transform.origin_x,
     rotation_center_y |-> transform.origin_y]

generate_pin_transform ==
    /\ pin_pc = "transform"
    /\ pin_gen' = {PinGenerateAttrs(pin_in, t) : t \in pin_transform}
    /\ pin_pc' = "generate"
    /\ UNCHANGED <<pin_in, all_holes, selected_holes, selected_pins, confirmed,
                   cancelled, selected, pin_transform, moved>>

\* _write_paths: flip, then rotate and translate, or translate
TransformPoint(self, p) ==
    LET x == IF self.flip_horizontal THEN 2 * self.flip_center_x - p[1] ELSE p[1]
    IN  IF self.rotate_180
        THEN <<2 * self.rotation_center_x - x + self.transform_x,
               2 * self.rotation_center_y - p[2] + self.transform_y>>
        ELSE <<x + self.transform_x, p[2] + self.transform_y>>

\* the points a path may pass: the hole centres and a board corner
PointChoices == {<<all_holes[i].x, all_holes[i].y>> : i \in 1..Len(all_holes)} \cup {<<0, 0>>}

\* _write_paths writes one more point of a path
write_point ==
    /\ pin_pc \in {"generate", "written"}
    /\ \E p \in PointChoices, self \in pin_gen :
          moved' = {[from |-> p, to |-> TransformPoint(self, p)]}
    /\ pin_pc' = "written"
    /\ UNCHANGED <<pin_in, all_holes, selected_holes, selected_pins, confirmed,
                   cancelled, selected, pin_transform, pin_gen>>

othersOfPin == <<bloomVars, gcodeVars, fillVars, templateVars, configVars,
                 handoffVars, rasterVars>>

NextPin ==
    \/ no_drill_holes /\ UNCHANGED othersOfPin
    \/ show_board /\ UNCHANGED othersOfPin
    \/ on_click /\ UNCHANGED othersOfPin
    \/ on_confirm /\ UNCHANGED othersOfPin
    \/ on_cancel /\ UNCHANGED othersOfPin
    \/ close_window /\ UNCHANGED othersOfPin
    \/ show_board_return /\ UNCHANGED othersOfPin
    \/ main_pin_transform /\ UNCHANGED othersOfPin
    \/ generate_pin_transform /\ UNCHANGED othersOfPin
    \/ write_point /\ UNCHANGED othersOfPin

SpecPin == InitPin /\ [][NextPin]_vars

(***************************************************************************)
(* FastBloomSimulator.rasterize_paths. Lengths are in hundredths of a      *)
(* millimetre. A path is a segment <<x0, y0, x1, y1>> along an axis. The   *)
(* list paths is kept as runs: a run stands for copies equal paths one     *)
(* after the other.                                                        *)
(***************************************************************************)
MaxRasterPaths == 2

\* raster_grid is float32: the whole numbers up to 2^24 are exact, and
\* 2^24 + 1.0 rounds back to 2^24
Float32Exact == 2 ^ 24

RasterPathChoices ==
    {<<0, 0, 20, 0>>, <<10, 0, 10, 10>>, <<5, 5, 5, 5>>, <<20, 10, 40, 10>>,
     <<-4, 0, -20, 0>>}

RunChoices == [path : RasterPathChoices, copies : {1, 2, Float32Exact}]

RasterInputs ==
    [bounds : {<<0, 0>>}, resolution : {10}, grid_shape : {<<2, 3>>},
     paths : SeqsUpTo(RunChoices, MaxRasterPaths),
     sample_distance : {5, 20}, min_samples : {2, 3}]

InitRaster ==
    /\ BloomIdle
    /\ GcodeIdle
    /\ FillIdle
    /\ TemplateIdle
    /\ ConfigIdle
    /\ HandoffIdle
    /\ PinIdle
    /\ raster_pc = "call"
    /\ raster_in \in RasterInputs
    /\ raster_i = 0
    /\ raster_grid = <<>>

\* the cells of the grid, as <<gy, gx>>
Cells(self) ==
    (0..(self.grid_shape[1] - 1)) \X (0..(self.grid_shape[2] - 1))

\* np.round of n / d for d > 0: to the nearest whole number, a half to the even one
RoundHalfEven(n, d) ==
    LET q == n \div d
        r == n % d
    IN  IF 2 * r < d THEN q
        ELSE IF 2 * r > d THEN q + 1
        ELSE IF q % 2 = 0 THEN q ELSE q + 1

PathLength(path) == Abs(path[3] - path[1]) + Abs(path[4] - path[2])

\* num_samples of one path
NumSamples(self, path) ==
    LET byLength == (PathLength(path) + self.sample_distance - 1) \div self.sample_distance
        num_samples_by_length == IF byLength > 2 THEN byLength ELSE 2
    IN  IF num_samples_by_length > self.min_samples
        THEN num_samples_by_length ELSE self.min_samples

\* world_to_grid of sample i of n of the path: <<gy, gx>>
world_to_grid(self, path, i, n) ==
    <<RoundHalfEven((path[2] - self.bounds[2]) * (n - 1) + (path[4] - path[2]) * i,
                    self.resolution * (n - 1)),
      RoundHalfEven((path[1] - self.bounds[1]) * (n - 1) + (path[3] - path[1]) * i,
                    self.resolution * (n - 1))>>

\* how many samples of the path hit the cell; a sample outside the grid hits none
HitsIn(self, path, cell) ==
    LET n == NumSamples(self, path)
    IN  Cardinality({i \in 0..(n - 1) : world_to_grid(self, path, i, n) = cell})

\* a mask instead of a count
AddHitsMask(count, hits) == IF hits > 0 THEN 1 ELSE count

\* hits times += 1.0 on a float32 cell
AddHits(count, hits) ==
    IF count + hits < Float32Exact THEN count + hits ELSE Float32Exact

\* the loop body for the paths of one run
RasterizeRun(self, g, run) ==
    [cell \in Cells(self) |->
        AddHits(g[cell], run.copies * HitsIn(self, run.path, cell))]

ZeroGrid(self) == [cell \in Cells(self) |-> 0]

RECURSIVE RasterizeFrom(_, _, _, _)
RasterizeFrom(self, g, runs, i) ==
    IF i > Len(runs) THEN g
    ELSE RasterizeFrom(self, RasterizeRun(self, g, runs[i]), runs, i + 1)

\* rasterize_paths as a function of the list
RasterizePaths(self, runs) == RasterizeFrom(self, ZeroGrid(self), runs, 1)

rasterize_begin ==
    /\ raster_pc = "call"
    /\ raster_grid' = ZeroGrid(raster_in)
    /\ raster_pc' = "loop"
    /\ UNCHANGED <<raster_in, raster_i>>

rasterize_path ==
    /\ raster_pc = "loop"
    /\ raster_i < Len(raster_in.paths)
    /\ raster_grid' = RasterizeRun(raster_in, raster_grid, raster_in.paths[raster_i + 1])
    /\ raster_i' = raster_i + 1
    /\ UNCHANGED <<raster_pc, raster_in>>

rasterize_return ==
    /\ raster_pc = "loop"
    /\ raster_i = Len(raster_in.paths)
    /\ raster_pc' = "returned"
    /\ UNCHANGED <<raster_in, raster_i, raster_grid>>

othersOfRaster == <<bloomVars, gcodeVars, fillVars, templateVars, configVars,
                    handoffVars, pinVars>>

NextRaster ==
    \/ rasterize_begin /\ UNCHANGED othersOfRaster
    \/ rasterize_path /\ UNCHANGED othersOfRaster
    \/ rasterize_return /\ UNCHANGED othersOfRaster

SpecRaster == InitRaster /\ [][NextRaster]_vars

(***************************************************************************)
(* cli.main: the bloom-compensation pipeline                               *)
(***************************************************************************)
Phases == <<"Idle", "GridCreated", "Simulated", "Classified",
            "CompensationGenerated", "VisualizationEmitted">>

\* position of a phase in the pipeline
PhaseRank(ph) == CHOOSE i \in 1..Len(Phases) : Phases[i] = ph

Ended == phase \in {"Finished", "Raised"}

InitBloom ==
    /\ GcodeIdle
    /\ FillIdle
    /\ TemplateIdle
    /\ LateIdle
    /\ phase = "Idle"
    /\ bloom_error = "none"
    /\ bloom_compensation \in BOOLEAN
    /\ bloom_debug_image \in BOOLEAN
    /\ double_expose_isolated \in BOOLEAN
    /\ num_sim_paths \in 0..1
    /\ trace_elements \in SeqsUpTo(TraceChoices, MaxTraces)
    \* nothing exposed: the simulated grid is zero everywhere
    /\ num_sim_paths = 0 => \A i \in 1..Len(trace_elements) : trace_elements[i].ambient = 0
    /\ threshold_percentile \in PercentileChoices
    /\ verbose \in BOOLEAN
    /\ grid = "None"
    /\ grid_shape = "None"
    /\ normal_traces = <<>>
    /\ underexposed_traces = <<>>
    /\ bloom_compensation_paths = <<>>
    /\ visualization = "none"

\* if bloom_compensation: ... is skipped
SkipBloom ==
    /\ phase = "Idle"
    /\ ~bloom_compensation
    /\ phase' = "Finished"
    /\ UNCHANGED <<bloom_error, bloomInputs, grid, grid_shape, normal_traces,
                   underexposed_traces, bloom_compensation_paths, visualization>>

\* simulator = FastBloomSimulator(...); simulator.create_grid(geometry.bounds)
create_grid ==
    /\ phase = "Idle"
    /\ bloom_compensation
    /\ grid' = "zeros"
    /\ grid_shape' = "set"
    /\ phase' = "GridCreated"
    /\ UNCHANGED <<bloom_error, bloomInputs, normal_traces, underexposed_traces,
                   bloom_compensation_paths, visualization>>

\* simulator.simulate(paths): rasterize_paths allocates np.zeros(self.grid_shape)
\* (TypeError when no grid was created) and visits every path; with no path
\* the raster stays zero; the convolution result replaces self.grid.
simulate ==
    /\ phase = "GridCreated"
    /\ IF grid_shape = "None"
       THEN /\ phase' = "Raised"
            /\ bloom_error' = "TypeError"
            /\ UNCHANGED grid
       ELSE /\ phase' = "Simulated"
            /\ grid' = "energy"
            /\ UNCHANGED bloom_error
    /\ UNCHANGED <<bloomInputs, grid_shape, normal_traces, underexposed_traces,
                   bloom_compensation_paths, visualization>>

\* normal_traces, underexposed_traces = identify_underexposed_traces(...)
identify_underexposed_traces ==
    /\ phase = "Simulated"
    /\ \E emptyPercentile \in PercentileOfEmpty :
         LET r == IdentifyOutcome(trace_elements, threshold_percentile, verbose,
                                  emptyPercentile)
         IN  /\ bloom_error' = r.error
             /\ phase' = IF r.error = "none" THEN "Classified" ELSE "Raised"
             /\ normal_traces' = r.normal
             /\ underexposed_traces' = r.underexposed
    /\ UNCHANGED <<bloomInputs, grid, grid_shape, bloom_compensation_paths,
                   visualization>>

\* trace_fills = fill_generator.generate_fill(trace_geom, ...);
\* additional_paths.extend(trace_fills): a list of LineStrings is appended
\* path by path; a dict (double_expose_isolated) contributes its two keys.
TraceFills(t, nfills) ==
    IF double_expose_isolated
    THEN <<[trace |-> t, kind |-> "str"], [trace |-> t, kind |-> "str"]>>
    ELSE [k \in 1..nfills |-> [trace |-> t, kind |-> "LineString"]]

\* if underexposed_traces: bloom_compensation_paths = generate_compensation_paths(...)
generate_compensation_paths ==
    /\ phase = "Classified"
    /\ underexposed_traces # <<>>
    /\ \E nfills \in 1..MaxFillsPerTrace :
         bloom_compensation_paths' =
            Flatten([k \in 1..Len(underexposed_traces) |->
                        TraceFills(underexposed_traces[k], nfills)])
    /\ phase' = "CompensationGenerated"
    /\ UNCHANGED <<bloom_error, bloomInputs, grid, grid_shape, normal_traces,
                   underexposed_traces, visualization>>

NoCompensationRetry ==
    /\ phase = "Classified"
    /\ underexposed_traces = <<>>
    /\ phase' = "GridCreated"
    /\ UNCHANGED <<bloom_error, bloomInputs, grid, grid_shape, normal_traces,
                   underexposed_traces, bloom_compensation_paths, visualization>>

\* no under-exposed trace: nothing is generated and nothing is drawn
NoCompensation ==
    /\ phase = "Classified"
    /\ underexposed_traces = <<>>
    /\ phase' = "Finished"
    /\ UNCHANGED <<bloom_error, bloomInputs, grid, grid_shape, normal_traces,
                   underexposed_traces, bloom_compensation_paths, visualization>>

HasStr(ps) == \E i \in 1..Len(ps) : ps[i].kind = "str"

\* a visualization that keeps the drawn paths for itself
generate_debug_visualization_consuming ==
    /\ phase = "CompensationGenerated"
    /\ bloom_debug_image
    /\ \E matplotlib \in BOOLEAN :
         IF ~matplotlib
         THEN /\ visualization' = "skipped"
              /\ IF HasStr(bloom_compensation_paths)
                 THEN phase' = "Raised" /\ bloom_error' = "AttributeError"
                 ELSE phase' = "Finished" /\ UNCHANGED bloom_error
              /\ UNCHANGED bloom_compensation_paths
         ELSE IF HasStr(bloom_compensation_paths)
         THEN /\ bloom_error' = "AttributeError"
              /\ phase' = "Raised"
              /\ UNCHANGED <<visualization, bloom_compensation_paths>>
         ELSE /\ visualization' = "emitted"
              /\ phase' = "VisualizationEmitted"
              /\ bloom_compensation_paths' = <<>>
              /\ UNCHANGED bloom_error
    /\ UNCHANGED <<bloomInputs, grid, grid_shape, normal_traces,
                   underexposed_traces>>

\* if bloom_debug_image: generate_debug_visualization(...): without matplotlib
\* it returns False and main goes on to the statistics (AttributeError on a
\* str, as in FinishBloom); it reads path.coords of every compensation path
\* (AttributeError on a str); otherwise the image is saved.  The simulator,
\* the trace lists and the paths are only read.
generate_debug_visualization ==
    /\ phase = "CompensationGenerated"
    /\ bloom_debug_image
    /\ \E matplotlib \in BOOLEAN :
         IF ~matplotlib
         THEN /\ visualization' = "skipped"
              /\ IF HasStr(bloom_compensation_paths)
                 THEN phase' = "Raised" /\ bloom_error' = "AttributeError"
                 ELSE phase' = "Finished" /\ UNCHANGED bloom_error
         ELSE IF HasStr(bloom_compensation_paths)
         THEN /\ bloom_error' = "AttributeError"
              /\ phase' = "Raised"
              /\ UNCHANGED visualization
         ELSE /\ visualization' = "emitted"
              /\ phase' = "VisualizationEmitted"
              /\ UNCHANGED bloom_error
    /\ UNCHANGED <<bloomInputs, grid, grid_shape, normal_traces,
                   underexposed_traces, bloom_compensation_paths>>

\* the run goes on to the statistics: sum(path.length for path in
\* bloom_compensation_paths) (AttributeError on a str)
FinishBloom ==
    /\ \/ phase = "CompensationGenerated" /\ ~bloom_debug_image
       \/ phase = "VisualizationEmitted"
    /\ IF HasStr(bloom_compensation_paths)
       THEN phase' = "Raised" /\ bloom_error' = "AttributeError"
       ELSE phase' = "Finished" /\ UNCHANGED bloom_error
    /\ UNCHANGED <<bloomInputs, grid, grid_shape, normal_traces,
                   underexposed_traces, bloom_compensation_paths, visualization>>

NextBloom ==
    \/ SkipBloom /\ UNCHANGED <<gcodeVars, fillVars, templateVars, lateVars>>
    \/ create_grid /\ UNCHANGED <<gcodeVars, fillVars, templateVars, lateVars>>
    \/ simulate /\ UNCHANGED <<gcodeVars, fillVars, templateVars, lateVars>>
    \/ identify_underexposed_traces /\ UNCHANGED <<gcodeVars, fillVars, templateVars, lateVars>>
    \/ generate_compensation_paths /\ UNCHANGED <<gcodeVars, fillVars, templateVars, lateVars>>
    \/ NoCompensation /\ UNCHANGED <<gcodeVars, fillVars, templateVars, lateVars>>
    \/ generate_debug_visualization /\ UNCHANGED <<gcodeVars, fillVars, templateVars, lateVars>>
    \/ FinishBloom /\ UNCHANGED <<gcodeVars, fillVars, templateVars, lateVars>>

SpecBloom == InitBloom /\ [][NextBloom]_vars

(***************************************************************************)
(* Claims about identify_underexposed_traces and the bloom pipeline        *)
(***************************************************************************)
Analysed == MeaningfulTraces(trace_elements)

Threshold100 == Percentile100(BloomValues(trace_elements), threshold_percentile)

\* round(p/100 * n), halves rounded up
RoundedShare(p, n) == (2 * p * n + 100) \div 200

DistinctAmbient ==
    \A i, j \in Range(Analysed) :
        i # j => trace_elements[i].ambient # trace_elements[j].ambient

NoDuplicates(s) == \A i, j \in 1..Len(s) : i # j => s[i] # s[j]

\* C5 as stated: whenever the call returns, the number of under-exposed
\* traces is within one of round(p/100 * number of analysed traces), ties
\* among the ambient-bloom values included.
C5_CountWithinOneOfShare ==
    phase = "Classified" =>
        Abs(Len(underexposed_traces)
            - RoundedShare(threshold_percentile, Len(Analysed))) <= 1

\* C5 amended: whenever the call returns and the analysed traces have pairwise
\* different ambient bloom, the number of under-exposed traces is within one
\* of round(p/100 * number of analysed traces).
C5_CountWithinOneWhenDistinct ==
    (phase = "Classified" /\ DistinctAmbient) =>
        Abs(Len(underexposed_traces)
            - RoundedShare(threshold_percentile, Len(Analysed))) <= 1

C5_Witness ==
    /\ phase = "Classified"
    /\ DistinctAmbient
    /\ Len(Analysed) = 3
    /\ threshold_percentile = 50
    /\ Len(underexposed_traces) = 1

\* C6: whenever the call returns, the traces of length >= min_trace_length
\* are split into two disjoint lists without repetition: a trace is in
\* underexposed iff it is analysed and its ambient bloom is strictly below
\* the percentile threshold, in normal iff it is analysed and not below it;
\* shorter traces are in neither list.
C6_ExactSplit ==
    phase = "Classified" =>
        /\ NoDuplicates(underexposed_traces)
        /\ NoDuplicates(normal_traces)
        /\ Range(underexposed_traces) \cap Range(normal_traces) = {}
        /\ \A i \in 1..Len(trace_elements) :
             LET long  == trace_elements[i].len >= min_trace_length
                 below == trace_elements[i].ambient * 100 < Threshold100
             IN  /\ i \in Range(underexposed_traces) <=> (long /\ below)
                 /\ i \in Range(normal_traces) <=> (long /\ ~below)

C6_Witness ==
    /\ phase = "Classified"
    /\ underexposed_traces # <<>>
    /\ normal_traces # <<>>
    /\ Len(Analysed) < Len(trace_elements)
    /\ \E i \in Range(normal_traces) :
         trace_elements[i].ambient * 100 = Threshold100

\* C7: a single trace that is long enough to be analysed: the call raises
\* nothing, the threshold is the trace's own ambient bloom, the trace is
\* returned as normal and the under-exposed list is empty.
C7_SingleTraceIsNormal ==
    (Len(trace_elements) = 1 /\ Len(Analysed) = 1) =>
        /\ Threshold100 = trace_elements[1].ambient * 100
        /\ bloom_error \notin {"IndexError", "ValueError"}
        /\ phase = "Classified" =>
             /\ normal_traces = <<1>>
             /\ underexposed_traces = <<>>

C7_Witness ==
    /\ Len(trace_elements) = 1
    /\ trace_elements[1].ambient > 0
    /\ threshold_percentile = 30
    /\ phase = "Classified"
    /\ normal_traces = <<1>>

\* C8 as stated: with no path to simulate, simulate fills the grid and raises
\* nothing; with no trace to classify (none given, or all shorter than
\* min_trace_length), identify_underexposed_traces returns two empty lists
\* and raises nothing.
C8_EmptyInputIsNoError ==
    /\ (num_sim_paths = 0 /\ phase \notin {"Idle", "GridCreated"} /\ bloom_compensation)
          => (grid = "energy" /\ bloom_error # "TypeError")
    /\ (Analysed = <<>> /\ phase \notin {"Idle", "GridCreated", "Simulated"}
          /\ bloom_compensation)
          => (bloom_error = "none" /\ normal_traces = <<>>
              /\ underexposed_traces = <<>>)

\* C10: the pipeline only moves forward, one phase at a time: a phase is
\* entered only from its predecessor, no phase is left for an earlier one,
\* an ended run stays ended, and simulate runs only on a grid that
\* create_grid has just made.
C10_PipelineForward ==
    [][/\ (phase' \in Range(Phases) /\ phase' # phase) =>
              (phase \in Range(Phases) /\ PhaseRank(phase') = PhaseRank(phase) + 1)
       /\ Ended => phase' = phase
       /\ (phase' = "Simulated" /\ phase # "Simulated") =>
              (grid = "zeros" /\ grid_shape = "set")
       /\ (grid' = "energy" /\ grid # "energy") => grid = "zeros"]_vars

C10_Witness ==
    /\ phase = "VisualizationEmitted"
    /\ visualization = "emitted"
    /\ grid = "energy"
    /\ bloom_compensation_paths # <<>>

\* C11 as stated: whenever generate_compensation_paths has returned, every
\* element of its list is a laser path (a LineString) and the list is the
\* concatenation, in the order of the under-exposed traces, of the fills of
\* each trace; this for every fill generator, double_expose_isolated included.
C11_CompensationPathsAreLineStrings ==
    phase \in {"CompensationGenerated", "VisualizationEmitted"} =>
        /\ \A i \in 1..Len(bloom_compensation_paths) :
              bloom_compensation_paths[i].kind = "LineString"
        /\ \A i, j \in 1..Len(bloom_compensation_paths) :
              i < j => \E a, b \in 1..Len(underexposed_traces) :
                          /\ a <= b
                          /\ underexposed_traces[a] = bloom_compensation_paths[i].trace
                          /\ underexposed_traces[b] = bloom_compensation_paths[j].trace
        /\ \A a \in 1..Len(underexposed_traces) :
              \E i \in 1..Len(bloom_compensation_paths) :
                  bloom_compensation_paths[i].trace = underexposed_traces[a]

(***************************************************************************)
(* Claims about FillGenerator.generate_fill                                *)
(***************************************************************************)
\* the paths of the result, normal and isolated alike
ResultPaths == fill_result.normal \o fill_result.isolated

CoverOuter(p, b) == Box(p.x0 - b, p.y0 - b, p.x1 + b, p.y1 + b)

CoverHole(p, b) ==
    IF p.type = "ring" THEN Box(p.x0 + b, p.y0 + b, p.x1 - b, p.y1 - b)
    ELSE Box(0, 0, 0, 0)

Inside(cell, box) ==
    box.x0 <= cell.x0 /\ cell.x1 <= box.x1 /\ box.y0 <= cell.y0 /\ cell.y1 <= box.y1

\* the coordinates at which the cover of a rectangle can change, in order
CutsX(s, ps, b) ==
    SortSet({s.x0, s.x1} \cup
            {x \in UNION {{CoverOuter(p, b).x0, CoverOuter(p, b).x1,
                           CoverHole(p, b).x0, CoverHole(p, b).x1} : p \in Range(ps)} :
                s.x0 < x /\ x < s.x1})

CutsY(s, ps, b) ==
    SortSet({s.y0, s.y1} \cup
            {y \in UNION {{CoverOuter(p, b).y0, CoverOuter(p, b).y1,
                           CoverHole(p, b).y0, CoverHole(p, b).y1} : p \in Range(ps)} :
                s.y0 < y /\ y < s.y1})

\* seven times the area of a polygon that the buffered paths certainly
\* leave uncovered; nothing is claimed for a disc
Uncovered7(s, ps, b) ==
    IF s.kind = "disc" THEN 0
    ELSE Bind(<<CutsX(s, ps, b), CutsY(s, ps, b)>>, LAMBDA cuts :
        SumSeq([i \in 1..(Len(cuts[1]) - 1) |->
            SumSeq([j \in 1..(Len(cuts[2]) - 1) |->
                Bind(Box(cuts[1][i], cuts[2][j], cuts[1][i + 1], cuts[2][j + 1]),
                     LAMBDA cell :
                        IF \E p \in Range(ps) : /\ Inside(cell, CoverOuter(p, b))
                                                /\ ~Inside(cell, CoverHole(p, b))
                        THEN 0 ELSE 7 * BoxArea(cell))])]))

TotalUncovered7 ==
    SumSeq([i \in 1..Len(geometry) |->
                Uncovered7(geometry[i], ResultPaths, fill_opts.line_spacing \div 2)])

\* C2: the returned paths, each buffered by line_spacing / 2, cover at
\* least 99% of the area of the geometry (checked with the boxes around
\* the buffered paths, which cover no less than the buffered paths do).
C2_CoverageAtLeast99 ==
    f_pc = "done" => TotalUncovered7 <= TotalArea7(geometry) \div 100

\* C3: every path of the result is longer than 0.01 mm.
C3_NoDegeneratePath ==
    f_pc = "done" => \A p \in Range(ResultPaths) : Length1000(p) > DegenerateLength

(***************************************************************************)
(* Claims about GCodeGenerator.generate                                    *)
(***************************************************************************)
\* the laser is on after the first i commands of the stream
LaserOn(i) ==
    \E j \in 1..i : /\ out[j].cmd = "M3"
                    /\ \A k \in (j + 1)..i : out[k].cmd # "M5"

\* the laser commands written for path i of a pass
CommandsOf(sec, i) ==
    SelectSeq(out, LAMBDA c : c.sec = sec /\ c.idx = i /\ c.cmd # "M73")

PassOf(sec) == IF sec = "normal" THEN gc_paths ELSE gc_isolated.paths

\* C4: in whatever has been written so far, while the laser is on only G1
\* moves and the M5 that ends the stroke are written (so no G0 and no second
\* M3), every M3 directly follows the G0 to the path's start, every path
\* with at least two points is written as G0, M3, one G1 per further point,
\* M5, and the finished program leaves the laser off.
C4_ContinuousStrokes ==
    /\ \A i \in 1..Len(out) :
         /\ LaserOn(i - 1) => out[i].cmd \in {"G1", "M5"}
         /\ out[i].cmd = "M3" => (i > 1 /\ out[i - 1].cmd = "G0")
         /\ (out[i].cmd = "G1" /\ out[i].sec \in {"normal", "isolated"}) => LaserOn(i - 1)
    /\ gc_pc \in {"footer", "done"} =>
         \A sec \in {"normal", "isolated"} : \A i \in 1..Len(PassOf(sec)) :
            IF PassOf(sec)[i].n >= 2
            THEN CommandsOf(sec, i) = PathBlock(sec, i, PassOf(sec)[i])
            ELSE CommandsOf(sec, i) = <<>>
    /\ gc_pc = "done" => ~LaserOn(Len(out))

C4_Witness ==
    /\ gc_pc = "done"
    /\ Len(gc_paths) = 2
    /\ Len(gc_isolated.paths) = 2
    /\ gc_opts.outline = "inward"
    /\ \E i \in 1..Len(out) : out[i].cmd = "G1" /\ out[i].sec = "isolated" /\ out[i].idx = 2

\* C9: generate called with no paths has raised ValueError, has written
\* nothing and has assigned no attribute of the generator.
C9_NoPathsIsFatal ==
    (gc_paths = <<>> /\ gc_pc \notin {"main", "call"}) =>
        /\ gc_pc = "raised"
        /\ gc_error = "ValueError"
        /\ out = <<>>
        /\ gen_attrs = {}

C9_Witness ==
    /\ gc_paths = <<>>
    /\ gc_isolated.paths # <<>>
    /\ gc_pc = "raised"
    /\ gc_error = "ValueError"

(***************************************************************************)
(* Claims about the isolation split of generate_fill                       *)
(***************************************************************************)
IsolationEnabled == fill_opts.double_expose_isolated /\ fill_opts.isolation_threshold > 0

\* five times the copper in the search zone of paths[i] against the zone
DensityBelow20(i) ==
    5 * CopperInZone7(paths[i], fill_opts.isolation_threshold, geometry)
        < ZoneArea7(paths[i], fill_opts.isolation_threshold)

DensityExactly20(i) ==
    5 * CopperInZone7(paths[i], fill_opts.isolation_threshold, geometry)
        = ZoneArea7(paths[i], fill_opts.isolation_threshold)

\* the elements of ps at the indices of I, in increasing index order
SubSeqAt(ps, I) == [k \in 1..Cardinality(I) |-> ps[SortSet(I)[k]]]

\* C12: with isolation detection enabled, the result splits the produced
\* paths: isolated is the produced paths whose search-zone copper density is
\* strictly below 20%, normal is all the others (exactly 20% included), each
\* in the order of production, so no path is lost or duplicated.
C12_IsolationPartition ==
    (f_pc = "done" /\ IsolationEnabled) =>
        /\ fill_result.isolated =
               SubSeqAt(paths, {i \in 1..Len(paths) : DensityBelow20(i)})
        /\ fill_result.normal =
               SubSeqAt(paths, {i \in 1..Len(paths) : ~DensityBelow20(i)})
        /\ Len(fill_result.normal) + Len(fill_result.isolated) = Len(paths)

C12_Witness ==
    /\ f_pc = "done"
    /\ IsolationEnabled
    /\ fill_result.isolated # <<>>
    /\ \E i \in 1..Len(paths) :
          DensityExactly20(i) /\ paths[i] \in Range(fill_result.normal)

\* the paths that lie on polygon s
PathsOn(s) ==
    {i \in 1..Len(paths) :
        /\ s.x0 <= Min2(paths[i].x0, paths[i].x1) /\ Max2(paths[i].x0, paths[i].x1) <= s.x1
        /\ s.y0 <= Min2(paths[i].y0, paths[i].y1) /\ Max2(paths[i].y0, paths[i].y1) <= s.y1}

IsSquarePad(s) == s.kind = "rect" /\ s.pad /\ Width(s) = Height(s)

\* distance between two polygons along the axes (they never overlap)
Gap(a, b) ==
    Max2(Max2(a.x0 - b.x1, b.x0 - a.x1), Max2(a.y0 - b.y1, b.y0 - a.y1))

\* polygon k is farther than 2 x isolation_threshold from all other copper
FarFromCopper(k) ==
    \A j \in 1..Len(geometry) :
        j # k => Gap(geometry[k], geometry[j]) > 2 * fill_opts.isolation_threshold

AllIsolated(I) ==
    \A i \in I : paths[i] \in Range(fill_result.isolated)
                   /\ paths[i] \notin Range(fill_result.normal)

NoneIsolated(I) ==
    \A i \in I : paths[i] \in Range(fill_result.normal)
                   /\ paths[i] \notin Range(fill_result.isolated)

\* the pad in the middle of the grid
GridCentrePad == GridGeometry[5]

PadSmallAgainstZone(k, i) ==
    5 * Area7(geometry[k]) < ZoneArea7(paths[i], fill_opts.isolation_threshold)

FlatList ==
    /\ fill_result.type = "list"
    /\ fill_result.normal = paths
    /\ fill_result.isolated = <<>>

LoopPass == f_pc = "loop" /\ current_geom # <<>>

\* C15 as stated: the body of the loop runs at most 1000 times per call
\* (the pass that starts with iteration = k is pass k + 1), and a loop
\* ended by the cap has printed the warning.
C15_AtMost1000Passes ==
    /\ [][LoopPass => iteration + 1 <= IterationLimit]_vars
    /\ []((f_pc # "loop" /\ iteration > IterationLimit) => warning)

\* C15 amended: the body of the loop runs at most 1001 times per call: the
\* cap is tested after the increment as iteration > 1000, so the pass that
\* starts with iteration = 1000 still runs; the loop is left by the cap
\* exactly when iteration has become 1001, and then, and only then, the
\* warning is printed.
C15_AtMost1001PassesAndWarning ==
    /\ [][LoopPass => iteration + 1 <= IterationLimit + 1]_vars
    /\ [](iteration <= IterationLimit + 1)
    /\ []((f_pc # "loop" /\ iteration > IterationLimit) => warning)
    /\ [](warning => (f_pc # "loop" /\ iteration = IterationLimit + 1))

C15_Witness ==
    /\ f_pc = "done"
    /\ warning
    /\ iteration = IterationLimit + 1
    /\ fill_result.type = "list"

\* C16: the loop is monotonically shrinking: whenever a pass of the loop
\* carries a geometry into the next pass, its total area is at most the
\* total area of the geometry the pass started with, and it has no more
\* polygons.
C16_MonotonicallyShrinking ==
    [][(LoopPass /\ f_pc' = "loop") =>
           /\ TotalArea7(current_geom') <= TotalArea7(current_geom)
           /\ Len(current_geom') <= Len(current_geom)]_vars

C16_Witness ==
    /\ f_pc = "loop"
    /\ iteration >= 2
    /\ current_geom # <<>>
    /\ Len(current_geom) < Len(geometry)
    /\ 2 * TotalArea7(current_geom) < TotalArea7(geometry)

(***************************************************************************)
(* The 10 mm square scenario                                               *)
(***************************************************************************)
SquareScenario ==
    /\ geometry = SquareGeometry
    /\ trace_centerlines = <<>>
    /\ fill_opts = DefaultFillOptions
    /\ f_pc = "done"

Contours == SelectSeq(fill_result.normal, LAMBDA p : p.src = "contour")

Centerlines == SelectSeq(fill_result.normal, LAMBDA p : p.src = "centerline")

\* the contours are squares, each strictly inside the one before
NestedSquares(cs) ==
    /\ \A i \in 1..Len(cs) : cs[i].type = "ring" /\ Width(cs[i]) = Height(cs[i])
    /\ \A i \in 1..(Len(cs) - 1) :
          /\ cs[i].x0 < cs[i + 1].x0 /\ cs[i + 1].x1 < cs[i].x1
          /\ cs[i].y0 < cs[i + 1].y0 /\ cs[i + 1].y1 < cs[i].y1

\* C17 as stated: the 10 mm square with line_spacing 0.1 mm and
\* initial_offset 0.05 mm gives about 50 (49 to 51) nested square contours
\* and no centerline.
C17_FiftyContoursNoCenterline ==
    SquareScenario =>
        /\ Len(Contours) \in 49..51
        /\ NestedSquares(Contours)
        /\ Centerlines = <<>>

\* C17 amended: the 10 mm square with line_spacing 0.1 mm and initial_offset
\* 0.05 mm gives exactly 50 nested square contours (the first 9.9 mm wide,
\* the last 0.2 mm wide) followed by one centerline of 0.2 mm across the
\* 0.2 mm square that remains when the next offset is empty, and nothing
\* else.
C17_FiftyContoursOneCenterline ==
    SquareScenario =>
        /\ fill_result.type = "list"
        /\ Len(Contours) = 50
        /\ NestedSquares(Contours)
        /\ Width(Contours[1]) = 9900
        /\ Width(Contours[50]) = 200
        /\ Len(Centerlines) = 1
        /\ Length1000(Centerlines[1]) = 200000
        /\ fill_result.normal = Contours \o Centerlines

C17_Witness ==
    /\ SquareScenario
    /\ Len(fill_result.normal) = 51
    /\ iteration = 49

(***************************************************************************)
(* Claims about the thin annular pads                                      *)
(***************************************************************************)
\* the circles synthesized for thin annular pads that lie on polygon s
ThinCirclesOn(s) == {i \in PathsOn(s) : paths[i].src = "thin_annular"}

\* twice the ring width of a round pad with a hole
TwiceRingWidth(s) == Width(s) - s.hole

\* C18: once the pre-pass has run, a small round pad whose ring width
\* equals line_spacing has no synthesized circle, one whose ring width is
\* 1.5 x line_spacing has exactly one, at the mid radius (its diameter is
\* the mean of the outer and the hole diameter, its centre the pad's), and
\* one whose ring width is 2 x line_spacing has none.
C18_ExclusiveRingBounds ==
    f_pc # "start" =>
        \A k \in 1..Len(geometry) :
            LET s == geometry[k]
            IN  (s.hole > 0 /\ Width(s) <= MaxThinPadSize) =>
                  /\ TwiceRingWidth(s) = 2 * fill_opts.line_spacing => ThinCirclesOn(s) = {}
                  /\ TwiceRingWidth(s) = 4 * fill_opts.line_spacing => ThinCirclesOn(s) = {}
                  /\ TwiceRingWidth(s) = 3 * fill_opts.line_spacing =>
                        /\ Cardinality(ThinCirclesOn(s)) = 1
                        /\ \A i \in ThinCirclesOn(s) :
                              /\ paths[i].type = "circle"
                              /\ 2 * (paths[i].x1 - paths[i].x0) = Width(s) + s.hole
                              /\ paths[i].x0 + paths[i].x1 = s.x0 + s.x1
                              /\ paths[i].y0 + paths[i].y1 = s.y0 + s.y1

C18_Witness ==
    /\ f_pc = "done"
    /\ Len(geometry) = 2
    /\ TwiceRingWidth(geometry[1]) = 4 * fill_opts.line_spacing
    /\ TwiceRingWidth(geometry[2]) = 3 * fill_opts.line_spacing
    /\ ThinCirclesOn(geometry[1]) = {}
    /\ Cardinality(ThinCirclesOn(geometry[2])) = 1
    /\ \E i \in ThinCirclesOn(geometry[2]) : paths[i] \in Range(fill_result.normal)

(***************************************************************************)
(* Claims about geometric operations that throw                            *)
(***************************************************************************)
\* C19 as stated: whichever geometric operations throw, generate_fill is
\* never left by their exception: the failing contribution is skipped and
\* the call goes on to return a result.
C19_GeometricErrorsAreCaught ==
    faults # {} => (f_pc # "raised" /\ f_error # "GEOSException")

\* what does hold: an exception of centerline extraction, of the filled-zone
\* construction or of centerline clipping, alone or together, is caught
CaughtFaultsOnly == faults \subseteq {"centerlines", "filled_zone", "clip"}

CaughtFaultsReturn == CaughtFaultsOnly => f_pc # "raised"

(***************************************************************************)
(* Claims about the drilling template                                      *)
(***************************************************************************)
\* C20: a failure of the STL renderer (not installed, longer than 60 s,
\* non-zero exit) makes generate_stl return False and raises nothing; the
\* renderer is started at most once per run, and only after the G-code file
\* has been written completely and closed; from then on the G-code output
\* is not changed; and main still returns 0.
C20_RendererFailureIsLocal ==
    /\ [](renderer_runs <= 1)
    /\ [](main_pc = "aborted" => (gc_pc = "raised" /\ renderer_runs = 0))
    /\ []((main_pc \in {"template_done", "returned"} /\ renderer_runs = 1
            /\ RendererFails(tmpl_in.renderer)) => stl_success = "False")
    /\ [](main_pc = "returned" => exit_code = 0)
    /\ [][/\ renderer_runs' # renderer_runs =>
               (gc_pc = "done" /\ main_pc = "saved" /\ out # <<>>)
          /\ main_pc # "gcode" => out' = out
          /\ main_pc \in {"rendering", "template_done"} =>
               main_pc' \in {"template_done", "returned"}]_vars

C20_Witness ==
    /\ main_pc = "returned"
    /\ exit_code = 0
    /\ renderer_runs = 1
    /\ tmpl_in.renderer.binary = "found"
    /\ tmpl_in.renderer.seconds > OpenscadTimeout
    /\ stl_success = "False"
    /\ gc_pc = "done"
    /\ Len(gc_paths) = 2

(***************************************************************************)
(* Claims about the debug visualization                                    *)
(***************************************************************************)
\* what generate_compensation_paths returns for the under-exposed traces
PathsForGcode(nfills) ==
    Flatten([k \in 1..Len(underexposed_traces) |->
                TraceFills(underexposed_traces[k], nfills)])

\* C21: generate_debug_visualization only observes: the step that draws or
\* skips the image leaves the simulator's grid and shape, the normal and
\* under-exposed trace lists and the compensation paths unchanged, and a run
\* that goes on to the G-code hands over the compensation paths
\* generate_compensation_paths returned, with or without the image.
C21_VisualizationOnlyObserves ==
    /\ [][(phase = "CompensationGenerated" /\ bloom_debug_image) =>
              UNCHANGED <<grid, grid_shape, normal_traces, underexposed_traces,
                          bloom_compensation_paths>>]_vars
    /\ []((phase \in {"VisualizationEmitted", "Finished"} /\ bloom_compensation
            /\ underexposed_traces # <<>>) =>
              \E nfills \in 1..MaxFillsPerTrace :
                  bloom_compensation_paths = PathsForGcode(nfills))

C21_Witness ==
    /\ phase = "Finished"
    /\ bloom_debug_image
    /\ visualization = "emitted"
    /\ grid = "energy"
    /\ normal_traces # <<>>
    /\ Len(bloom_compensation_paths) >= 2

(***************************************************************************)
(* Claims about the settings                                               *)
(***************************************************************************)
\* the command line gives a value for the key
GivenOnCommandLine(key) ==
    /\ key \in ArgNames
    /\ IF key \in FlagArgs THEN cli_args[key] ELSE cli_args[key] # {}

\* command-line argument, else config-file value, else built-in default
ByPrecedence(key) ==
    IF GivenOnCommandLine(key)
    THEN IF key \in FlagArgs THEN {cli_args[key]} ELSE cli_args[key]
    ELSE IF InConfig(config, key) THEN config[key]
    ELSE DefaultOf(key)

\* C22 as stated: once the settings are resolved, every setting that is a
\* known configuration key has the value of the command-line argument if one
\* is given, otherwise the config-file value if the key is in the file,
\* otherwise the built-in default.
C22_CliOverConfigOverDefault ==
    cfg_pc = "resolved" =>
        \A key \in SettingKeys : settings[key] = ByPrecedence(key)

\* the same for every key but no_normalize
PrecedenceOfGetValue ==
    cfg_pc = "resolved" =>
        \A key \in SettingKeys \ {"no_normalize"} : settings[key] = ByPrecedence(key)

(***************************************************************************)
(* Claims about the end of the contour-offset loop                         *)
(***************************************************************************)
\* the paths the step appends
AppendedPaths == SubSeq(paths', Len(paths) + 1, Len(paths'))

ContoursOf(ps) == SelectSeq(ps, LAMBDA p : p.src = "contour")

CenterlinesOf(ps) == SelectSeq(ps, LAMBDA p : p.src = "centerline")

\* the inward-buffered geometry is empty or has less than 10% of the area
\* of the current geometry
NextIsEmptyOrSliver ==
    LET next == Buffer(current_geom, fill_opts.line_spacing)
    IN  \/ next = <<>>
        \/ TotalArea7(next) < (TotalArea7(current_geom) + 9) \div 10

\* the path lies on the polygon
OnPolygon(p, s) == p.x0 >= s.x0 /\ p.x1 <= s.x1 /\ p.y0 >= s.y0 /\ p.y1 <= s.y1

\* the long side of the polygon's rectangle is longer than 0.01 mm
LongEnoughForCenterline(s) == Max2(Width(s), Height(s)) * 1000 > DegenerateLength

\* how many of the centerlines lie on the polygon
CenterlinesOn(cl, s) == Cardinality({k \in 1..Len(cl) : OnPolygon(cl[k], s)})

\* a pass with a sliver or nothing left ends the loop and appends this
\* pass's contours followed by centerlines only; any other pass appends no
\* centerline; outside the loop no contour is appended
StopsAtFirstSliver ==
    /\ (LoopPass /\ f_pc' # "raised" /\ NextIsEmptyOrSliver) =>
          /\ f_pc' = "traces"
          /\ AppendedPaths = ContoursOf(AppendedPaths) \o CenterlinesOf(AppendedPaths)
    /\ (LoopPass /\ ~NextIsEmptyOrSliver) => CenterlinesOf(AppendedPaths) = <<>>
    /\ (f_pc # "loop" /\ Len(paths') >= Len(paths)) => ContoursOf(AppendedPaths) = <<>>

\* C23 as stated: the loop stops at the first pass in which the next
\* geometry is empty or has less than 10% of the current area; that pass
\* extracts one centerline for every remaining polygon, and no contour is
\* extracted after it.
C23_StopWithOneCenterlinePerPolygon ==
    [][/\ StopsAtFirstSliver
       /\ (LoopPass /\ f_pc' # "raised" /\ NextIsEmptyOrSliver) =>
             \A i \in 1..Len(current_geom) :
                 CenterlinesOn(CenterlinesOf(AppendedPaths), current_geom[i]) = 1]_vars

\* C23 amended: the loop stops at the first pass in which the next geometry
\* is empty or has less than 10% of the current area; that pass extracts one
\* centerline for every remaining polygon whose long side exceeds 0.01 mm
\* and none for a smaller one, and no contour is extracted after it.
C23_StopWithCenterlinePerLongPolygon ==
    [][/\ StopsAtFirstSliver
       /\ (LoopPass /\ f_pc' # "raised" /\ NextIsEmptyOrSliver) =>
             \A i \in 1..Len(current_geom) :
                 CenterlinesOn(CenterlinesOf(AppendedPaths), current_geom[i]) =
                     IF LongEnoughForCenterline(current_geom[i]) THEN 1 ELSE 0]_vars

C23_Witness ==
    /\ f_pc = "traces"
    /\ ~warning
    /\ iteration >= 2
    /\ Len(current_geom) = 2
    /\ Len(CenterlinesOf(paths)) = 2
    /\ Len(ContoursOf(paths)) >= 6

(***************************************************************************)
(* Claims about which polygons get a synthesized ring                      *)
(***************************************************************************)
\* the polygon has a synthesized ring among the paths
HasSynthesizedRing(s) == ThinCirclesOn(s) # {}

LongSide(s) == Max2(Width(s), Height(s))

ShortSide(s) == Min2(Width(s), Height(s))

\* C24 as stated: once the pre-pass has run, every synthesized ring lies on
\* a polygon with exactly one hole, a bounding box of at most 4 mm and an
\* aspect ratio of at most 1.15; a polygon without a hole or with more than
\* one hole has no synthesized ring.
C24_RingOnlyForOneHoleSmallRound ==
    f_pc # "start" =>
        /\ \A i \in 1..Len(paths) :
              paths[i].src = "thin_annular" =>
                  \E k \in 1..Len(geometry) : i \in ThinCirclesOn(geometry[k])
        /\ \A k \in 1..Len(geometry) :
              HasSynthesizedRing(geometry[k]) =>
                  /\ geometry[k].interiors = 1
                  /\ LongSide(geometry[k]) <= MaxThinPadSize
                  /\ 100 * LongSide(geometry[k]) <= 115 * ShortSide(geometry[k])

\* the same with "at least one hole" for "exactly one hole"
RingOnlyForHoledSmallRound ==
    f_pc # "start" =>
        \A k \in 1..Len(geometry) :
            HasSynthesizedRing(geometry[k]) =>
                /\ geometry[k].interiors >= 1
                /\ LongSide(geometry[k]) <= MaxThinPadSize
                /\ 100 * LongSide(geometry[k]) <= 115 * ShortSide(geometry[k])

(***************************************************************************)
(* Claims about the order of the emitted paths                             *)
(***************************************************************************)
\* the second-pass list generate was given
SecondPassPaths == IF gc_isolated.given THEN gc_isolated.paths ELSE <<>>

\* the strokes of the two passes in the order of the program: the pass and
\* the index of the path of every laser-on command
EmittedStrokes ==
    LET on == SelectIdx(Len(out), LAMBDA k : out[k].cmd = "M3"
                                              /\ out[k].sec \in {"normal", "isolated"})
    IN  [k \in 1..Len(on) |-> [sec |-> out[on[k]].sec, idx |-> out[on[k]].idx]]

\* every path of the list, in the order of the list
EveryPath(sec, ps) == [i \in 1..Len(ps) |-> [sec |-> sec, idx |-> i]]

\* every path of the list that has at least two points, in the order of the list
EveryPathWithTwoPoints(sec, ps) ==
    LET kept == SelectIdx(Len(ps), LAMBDA i : ps[i].n >= 2)
    IN  [k \in 1..Len(kept) |-> [sec |-> sec, idx |-> kept[k]]]

\* main hands over the isolated paths followed by the compensation paths
MainPassesIsolatedThenCompensation ==
    (gc_pc = "main" /\ gc_pc' = "call") =>
        /\ gc_paths' = gc_paths
        /\ (IF gc_isolated'.given THEN gc_isolated'.paths ELSE <<>>)
              = isolated_paths \o compensation_paths

PositionsOf(c) == {k \in 1..Len(out) : out[k].cmd = c}

\* C26: with an arm and a disarm command configured, at every point of the
\* writing the program has at most one arm and one disarm command, every
\* laser-on command (M3), those of the board outline included, comes after
\* the arm command, every laser-on and laser-off command (M5) comes before
\* the disarm command, and the finished program has both commands.
C26_ArmedAroundEveryStroke ==
    (gc_opts.arm /\ gc_opts.disarm) =>
        /\ Cardinality(PositionsOf("ARM")) <= 1
        /\ Cardinality(PositionsOf("DISARM")) <= 1
        /\ \A k \in PositionsOf("M3") : \E a \in PositionsOf("ARM") : a < k
        /\ \A k \in PositionsOf("M3") \cup PositionsOf("M5") :
              \A d \in PositionsOf("DISARM") : k < d
        /\ gc_pc = "done" => (PositionsOf("ARM") # {} /\ PositionsOf("DISARM") # {})

C26_Witness ==
    /\ gc_pc = "done"
    /\ gc_opts.arm /\ gc_opts.disarm
    /\ gc_opts.outline = "outward"
    /\ \E k \in PositionsOf("M3") : out[k].sec = "outline"
    /\ \E k \in PositionsOf("M3") : out[k].sec = "normal"
    /\ \E k \in PositionsOf("M3") : out[k].sec = "isolated"

(***************************************************************************)
(* Claims about the progress reports                                       *)
(***************************************************************************)
\* the progress of the M73 commands written so far, in tenths of a percent,
\* in the order of the program
ProgressReports ==
    LET at == SelectIdx(Len(out), LAMBDA k : out[k].cmd = "M73")
    IN  [k \in 1..Len(at) |-> out[at[k]].arg]

\* C27 as stated: at every point of the writing, the progress of the M73
\* commands written so far never decreases from one command to the next
\* and never exceeds 100%; the program starts with M73 P0 and the finished
\* program ends with M73 P100.
C27_ProgressNeverDecreases ==
    /\ \A k \in 1..Len(ProgressReports) : ProgressReports[k] <= 1000
    /\ \A k \in 1..(Len(ProgressReports) - 1) : ProgressReports[k] <= ProgressReports[k + 1]
    /\ ProgressReports # <<>> => ProgressReports[1] = 0
    /\ gc_pc = "done" => ProgressReports[Len(ProgressReports)] = 1000

\* the reports stay within 0..100%, start at 0 and end at 100, and do not
\* decrease within the normal pass nor within the second pass
ProgressWithinPasses ==
    /\ \A k \in 1..Len(ProgressReports) : ProgressReports[k] \in 0..1000
    /\ ProgressReports # <<>> => ProgressReports[1] = 0
    /\ gc_pc = "done" => ProgressReports[Len(ProgressReports)] = 1000
    /\ \A j, k \in PositionsOf("M73") :
          (j < k /\ out[j].sec = out[k].sec) => out[j].arg <= out[k].arg


\* ---- C28
pin1 == (CHOOSE pins \in selected : TRUE)[1]

\* the offsets, where pin 1 is to arrive
PinOrigin == <<pin_in.x_offset, pin_in.y_offset>>

AtPin1(m) == m.from = <<pin1.x, pin1.y>>

\* C28: in pin alignment mode a path point at the position of the first
\* selected pin is written as (x_offset, y_offset), in normal orientation and
\* upside down, with and without flip_horizontal
C28_PinOneBecomesOrigin ==
    \A m \in moved : AtPin1(m) => m.to = PinOrigin

\* without the flip, or with pin 1 on the flip centre, pin 1 arrives at the
\* offsets in both orientations, and its Y does so always
PinOneBecomesOriginUnflipped ==
    \A m \in moved, self \in pin_gen :
        AtPin1(m) =>
            /\ m.to[2] = pin_in.y_offset
            /\ (~pin_in.flip_horizontal \/ self.flip_center_x = pin1.x) => m.to = PinOrigin
            /\ pin_in.flip_horizontal /\ ~self.rotate_180 =>
                   m.to[1] = 2 * (self.flip_center_x - pin1.x) + pin_in.x_offset
            /\ pin_in.flip_horizontal /\ self.rotate_180 =>
                   m.to[1] = 2 * (pin1.x - self.flip_center_x) + pin_in.x_offset


\* ---- C29
NoHoleTwice ==
    \A i, j \in 1..Len(selected_holes) : i # j => selected_holes[i] # selected_holes[j]

\* show_board has returned to main
ShowBoardReturned == pin_pc \in {"selected", "transform", "generate", "written", "return0"}

TwoDistinctHoles(pins) ==
    /\ pins[1] # pins[2]
    /\ \E i, j \in 1..Len(all_holes) : i # j /\ pins = <<all_holes[i], all_holes[j]>>

\* C29: after any clicks on holes, Confirm and Cancel the selection holds at
\* most two holes and none twice; Confirm takes effect only with exactly two
\* holes selected; confirmed and cancelled are never both true; show_board
\* returns a pair of two distinct holes only after Confirm, and None after
\* Cancel or after the window was closed without Confirm
C29_DialogSelectsTwoHolesOrNone ==
    /\ [](Len(selected_holes) <= 2 /\ NoHoleTwice)
    /\ [][(confirmed' # confirmed \/ selected_pins' # selected_pins)
             => Len(selected_holes) = 2 /\ confirmed']_vars
    /\ [](~(confirmed /\ cancelled))
    /\ [](ShowBoardReturned =>
             /\ \A pins \in selected : confirmed /\ TwoDistinctHoles(pins)
             /\ (cancelled \/ ~confirmed) => selected = {}
             /\ confirmed => selected # {})

\* the dialog with more than two holes was confirmed and has returned a pair
C29_Witness ==
    /\ pin_pc = "selected"
    /\ confirmed
    /\ selected # {}
    /\ Len(all_holes) > 2

\* Cancel, and closing the window, return None
C29_WitnessNone ==
    /\ pin_pc = "selected"
    /\ selected = {}
    /\ Len(selected_holes) = 2


\* ---- C30
\* the samples of the run that fall inside the grid
SamplesInside(self, run) ==
    run.copies * Cardinality({i \in 0..(NumSamples(self, run.path) - 1) :
        world_to_grid(self, run.path, i, NumSamples(self, run.path)) \in Cells(self)})

RECURSIVE GridTotalOver(_, _)
GridTotalOver(g, cells) ==
    IF cells = {} THEN 0
    ELSE LET c == CHOOSE c \in cells : TRUE
         IN  g[c] + GridTotalOver(g, cells \ {c})

GridTotal(g) == GridTotalOver(g, DOMAIN g)

\* the entries of the list at the indices, in the order of the sequence order
Picked(runs, order) == [k \in 1..Len(order) |-> runs[order[k]]]

\* the indices of the set in ascending order
RECURSIVE Ascending(_)
Ascending(S) ==
    IF S = {} THEN <<>>
    ELSE LET m == CHOOSE m \in S : \A o \in S : m <= o
         IN  <<m>> \o Ascending(S \ {m})

Orders(n) == {o \in [1..n -> 1..n] : \A i, j \in 1..n : i # j => o[i] # o[j]}

\* the raster grid equals the sum of the grids of the two parts, for every
\* split of the list, and the grid of every reordering of the list
AdditiveOverPartitions ==
    LET runs == raster_in.paths
        n == Len(runs)
    IN  /\ \A S \in SUBSET (1..n) :
              LET a == RasterizePaths(raster_in, Picked(runs, Ascending(S)))
                  b == RasterizePaths(raster_in, Picked(runs, Ascending((1..n) \ S)))
              IN  raster_grid = [cell \in Cells(raster_in) |-> a[cell] + b[cell]]
        /\ \A o \in Orders(n) :
              raster_grid = RasterizePaths(raster_in, Picked(runs, o))

\* one pass of the loop adds 1 for every sample inside the grid, and nothing else
EverySampleAddsOne ==
    raster_pc = "loop" /\ raster_i' = raster_i + 1 =>
        GridTotal(raster_grid') =
            GridTotal(raster_grid) + SamplesInside(raster_in, raster_in.paths[raster_i'])

\* no cell is hit more often than float32 counts exactly
RECURSIVE ExactHitsFrom(_, _, _, _)
ExactHitsFrom(self, runs, cell, i) ==
    IF i > Len(runs) THEN 0
    ELSE runs[i].copies * HitsIn(self, runs[i].path, cell)
             + ExactHitsFrom(self, runs, cell, i + 1)

WithinFloat32 ==
    \A cell \in Cells(raster_in) :
        ExactHitsFrom(raster_in, raster_in.paths, cell, 1) <= Float32Exact

\* C30: every sample inside the grid adds exactly 1 to exactly one cell and
\* a sample outside adds nothing, so the raster grid of a path list is the
\* cell-wise sum of the raster grids of the parts of any partition of the
\* list, in whatever order the paths are processed
C30_RasterIsAdditive ==
    /\ [][EverySampleAddsOne]_vars
    /\ [](raster_pc = "returned" => AdditiveOverPartitions)

\* C30 for float32 cells: the same, as long as no cell is hit more than
\* 2^24 times
C30_RasterIsAdditiveWithinFloat32 ==
    /\ [][WithinFloat32 => EverySampleAddsOne]_vars
    /\ [](raster_pc = "returned" /\ WithinFloat32 => AdditiveOverPartitions)

\* two paths that share a cell and a path with samples outside the grid have
\* been rasterized
C30_Witness ==
    /\ raster_pc = "returned"
    /\ WithinFloat32
    /\ Len(raster_in.paths) = 2
    /\ \E cell \in Cells(raster_in) : raster_grid[cell] > 1
    /\ \E k \in 1..2 :
          SamplesInside(raster_in, raster_in.paths[k])
              < raster_in.paths[k].copies * NumSamples(raster_in, raster_in.paths[k].path)

====
